---- MODULE Spec2Model ----
(***************************************************************************)
(* A model of the Dex MCP server's search core: the FullTextSearchIndex    *)
(* (TTL-gated refresh, search, snippets), the search_contacts_full_text    *)
(* tool handler that drives it, and the ContactMatcher (findMatches); and  *)
(* of the tool layer around it: the reminders of a contact, the handler's  *)
(* dispatch and error boundary, and the merge of enrichContact.            *)
(*                                                                         *)
(* Strings are sequences of one-character strings, so that trimming,       *)
(* lower-casing, digit stripping and splitting are computed, not assumed.  *)
(* Time is a discrete clock (Date.now()), which never reads 0.             *)
(***************************************************************************)
EXTENDS Integers, Sequences, FiniteSets, TLC

VARIABLES
    clock,        \* Date.now()
    remote,       \* the CRM behind DexClient: contacts, notes, reminders
    documents,    \* FullTextSearchIndex.documents
    fuse,         \* FullTextSearchIndex.fuse: the list it was built over, or Unbuilt
    contactsMap,  \* FullTextSearchIndex.contactsMap
    lastRefresh,  \* FullTextSearchIndex.lastRefresh
    cacheTTL,     \* FullTextSearchIndex.cacheTTL
    call,         \* the tool calls in flight: position and locals of refreshIndex
    response,     \* the response of the tool call that returned last
    starts,       \* number of tool calls received so far
    changes,      \* number of changes made to the remote data so far
    committed,    \* history: the index as the last successful refresh left it
    lastOk,       \* history: the refresh that completed successfully last
    failPending,  \* history: a refresh failed and none has completed since it began
    disturbed,    \* history: some refresh has failed, or two have overlapped
    mapStart,     \* history: per entry of contactsMap, when the refresh that wrote it began
    contacts,     \* ContactMatcher.contacts
    params,       \* the SearchParams of the findMatches call
    fuseHits,     \* what Fuse returns for params.name over contacts
    matches,      \* the result of findMatches(params)
    matchesNoCo,  \* the result of findMatches(params without company)
    mpc,          \* position of the matcher scenario
    thrown,       \* the message of the Error the call threw, or NoError
    searchHits,   \* what Fuse makes of the query, per text of the index
    searchOptions,\* the options of the search call
    searchResults,\* what search returned
    spc,          \* position of the search scenario
    normKind,     \* which normalizer was applied
    normInput,    \* the string it was applied to
    normOnce,     \* its output
    normTwice,    \* its output on that output
    remoteReminders,\* the reminders the remote returns for GET /reminders
    reminderParams,\* the params of the last getContactReminders call
    reminderResult,\* what that call returned
    answered,     \* history: per contact id, the result of its last unfiltered call
    toolRequest,  \* the request of the tool call handled last
    toolResponse, \* what the handler returned for it
    toolFailures, \* history: what failed while it was handled
    served,       \* number of tool calls handled so far
    cacheFresh,   \* ContactDiscoveryTools.contactsCache is set and within CACHE_TTL
    indexFresh,   \* FullTextSearchIndex.lastRefresh is set and within cacheTTL
    erred,        \* history: some earlier call was answered with an error
    storedContact,\* the contact as the remote holds it
    enrichParams, \* the params of the enrichContact call
    enrichBefore, \* history: the contact as getContact returned it to the call
    sentUpdates,  \* the mergedUpdates the call sent to updateContact
    epc,          \* position of the enrichment scenario
    snipText,     \* the searchableText handed to extractSnippet
    snipSpan,     \* the first index pair of the first Fuse match
    snippetOut,      \* what extractSnippet returned
    snpc,         \* position of the snippet scenario
    ldRemote,     \* the remote contact list the loader pages through
    ldOffset,     \* offset of the loader loop
    ldAll,        \* allContacts of the loader loop
    ldRequests,   \* the (limit, offset) pairs requested so far
    ldError,      \* the error the load was aborted with
    ldpc,         \* position of the loader
    dClock,       \* Date.now() as the discovery tools read it, in ticks
    dRemote,      \* how many updates the remote contact list has taken
    contactsCache,\* ContactDiscoveryTools.contactsCache (set, and the list)
    cacheTimestamp,\* ContactDiscoveryTools.cacheTimestamp
    matcherContacts,\* the list handed to matcher.setContacts last
    dCall,        \* per find_contact call, where it stands and what it holds
    dEnrich,      \* where the enrich_contact call stands
    dEnriched,    \* the remote update count when enrich_contact last completed
    dLoad,        \* the contact-list load that completed last
    dResult,      \* the last find_contact answer
    dFinds,       \* find_contact calls so far
    dUpdates      \* enrich_contact calls so far

indexVars == <<clock, remote, documents, fuse, contactsMap, lastRefresh, cacheTTL,
               call, response, starts, changes, committed, lastOk, failPending,
               disturbed, mapStart>>
matchVars == <<contacts, params, fuseHits, matches, matchesNoCo, mpc, thrown>>
searchVars == <<searchHits, searchOptions, searchResults, spc>>
normVars == <<normKind, normInput, normOnce, normTwice>>
reminderVars == <<remoteReminders, reminderParams, reminderResult, answered>>
handlerVars == <<toolRequest, toolResponse, toolFailures, served, cacheFresh, indexFresh, erred>>
enrichVars == <<storedContact, enrichParams, enrichBefore, sentUpdates, epc>>
snippetVars == <<snipText, snipSpan, snippetOut, snpc>>
loaderVars == <<ldRemote, ldOffset, ldAll, ldRequests, ldError, ldpc>>
discoveryVars == <<dClock, dRemote, contactsCache, cacheTimestamp, matcherContacts, dCall, dEnrich, dEnriched, dLoad, dResult, dFinds, dUpdates>>
vars == <<indexVars, matchVars, searchVars, normVars, reminderVars, handlerVars, enrichVars, snippetVars, loaderVars, discoveryVars>>

besideIndex == <<matchVars, searchVars, normVars, reminderVars, handlerVars, enrichVars, snippetVars, loaderVars, discoveryVars>>
besideMatch == <<indexVars, searchVars, normVars, reminderVars, handlerVars, enrichVars, snippetVars, loaderVars, discoveryVars>>
besideSearch == <<indexVars, matchVars, normVars, reminderVars, handlerVars, enrichVars, snippetVars, loaderVars, discoveryVars>>
besideNorm == <<indexVars, matchVars, searchVars, reminderVars, handlerVars, enrichVars, snippetVars, loaderVars, discoveryVars>>
besideReminder == <<indexVars, matchVars, searchVars, normVars, handlerVars, enrichVars, snippetVars, loaderVars, discoveryVars>>
besideHandler == <<indexVars, matchVars, searchVars, normVars, reminderVars, enrichVars, snippetVars, loaderVars, discoveryVars>>
besideEnrich == <<indexVars, matchVars, searchVars, normVars, reminderVars, handlerVars, snippetVars, loaderVars, discoveryVars>>
besideSnippet == <<indexVars, matchVars, searchVars, normVars, reminderVars, handlerVars, enrichVars, loaderVars, discoveryVars>>
besideLoader == <<indexVars, matchVars, searchVars, normVars, reminderVars, handlerVars, enrichVars, snippetVars, discoveryVars>>
besideDiscovery == <<indexVars, matchVars, searchVars, normVars, reminderVars, handlerVars, enrichVars, snippetVars, loaderVars>>

-----------------------------------------------------------------------------
(* Bounds of the model *)

MaxTime == 3
TTLTicks == 2
MaxStarts == 3
MaxChanges == 1

Calls == {1, 2}

-----------------------------------------------------------------------------
(* Strings *)

Min(a, b) == IF a < b THEN a ELSE b
Max(a, b) == IF a > b THEN a ELSE b

Undef == "undefined"
NoText == <<Undef>>
Omitted == 0 - 1

IsSpace(ch) == ch \in {" ", "\n", "\t"}

RECURSIVE TrimLeft(_)
TrimLeft(s) == IF s # <<>> /\ IsSpace(Head(s)) THEN TrimLeft(Tail(s)) ELSE s

RECURSIVE TrimRight(_)
TrimRight(s) ==
    IF s # <<>> /\ IsSpace(s[Len(s)]) THEN TrimRight(SubSeq(s, 1, Len(s) - 1)) ELSE s

\* String.prototype.trim
Trim(s) == TrimRight(TrimLeft(s))

\* String.prototype.substring(from, to), 0-based, to exclusive, clamped
Substring(s, from, to) ==
    LET f == Max(0, Min(from, Len(s)))
        t == Max(0, Min(to, Len(s)))
    IN  SubSeq(s, Min(f, t) + 1, Max(f, t))

\* the 0-based index of the first occurrence of pat in s, or -1
IndexOf(s, pat) ==
    LET hits == {i \in 0..(Len(s) - Len(pat)) : SubSeq(s, i + 1, i + Len(pat)) = pat}
    IN  IF hits = {} THEN -1 ELSE CHOOSE i \in hits : \A j \in hits : i <= j

\* the replacement patterns of String.prototype.replace, read left to right:
\* "$$" inserts one "$" and "$&" inserts the matched substring
RECURSIVE ExpandReplacement(_, _)
ExpandReplacement(by, matched) ==
    IF by = <<>> THEN <<>>
    ELSE IF Len(by) >= 2 /\ by[1] = "$" /\ by[2] = "$"
         THEN <<"$">> \o ExpandReplacement(SubSeq(by, 3, Len(by)), matched)
    ELSE IF Len(by) >= 2 /\ by[1] = "$" /\ by[2] = "&"
         THEN matched \o ExpandReplacement(SubSeq(by, 3, Len(by)), matched)
    ELSE <<Head(by)>> \o ExpandReplacement(Tail(by), matched)

\* String.prototype.replace(pat, by) with a string pattern: first occurrence only
ReplaceFirst(s, pat, by) ==
    LET i == IndexOf(s, pat)
    IN  IF i < 0 THEN s
        ELSE SubSeq(s, 1, i) \o ExpandReplacement(by, pat)
                 \o SubSeq(s, i + Len(pat) + 1, Len(s))

RECURSIVE Flatten(_)
Flatten(ss) == IF ss = <<>> THEN <<>> ELSE Head(ss) \o Flatten(Tail(ss))

MapSeq(f(_), s) == [i \in 1..Len(s) |-> f(s[i])]

-----------------------------------------------------------------------------
(* The remote CRM: DexContact, DexNote, DexReminder snapshots *)

NameA == <<"a", "n">>
NameB == <<"b", "o">>

ContactIds == {1, 2}
ContactVariants == {1, 2}
NoteVariants == {1, 2}
ReminderVariants == {1}

\* version v of contact i: the remote may rename a contact
ContactOf(i, v) ==
    [id |-> i,
     first_name |-> IF v = 1 THEN NameA ELSE NameB,
     last_name |-> <<>>, job_title |-> <<>>, description |-> <<>>,
     emails |-> <<>>, phones |-> <<>>,
     linkedin |-> <<>>, facebook |-> <<>>, twitter |-> <<>>,
     instagram |-> <<>>, telegram |-> <<>>]

\* the one note of the remote, in its variants: its contacts differ
NoteOf(v) ==
    [id |-> 1,
     note |-> <<"<p>">> \o NameA \o <<"</p>">>,
     event_time |-> "d1",
     contacts |-> IF v = 1 THEN <<[contact_id |-> 1]>>
                  ELSE <<[contact_id |-> 1], [contact_id |-> 2]>>]

ReminderOf(v) ==
    [id |-> 1,
     body |-> NameB,
     is_complete |-> (v # 1),
     due_at_date |-> "d2",
     contact_ids |-> <<[contact_id |-> 2]>>]

\* a variant 0 stands for "not there"
RemoteStates ==
    {r \in [contacts : [ContactIds -> {0} \cup ContactVariants],
            notes : {0} \cup NoteVariants,
            reminders : ReminderVariants] : r.contacts[2] # 2 /\ r.notes # 1}

\* at start: contact 1 exists, and a note names contact 1 and contact 2
InitialRemote == [contacts |-> (1 :> 1) @@ (2 :> 0), notes |-> 2, reminders |-> 1]

RECURSIVE ContactsUpTo(_, _)
ContactsUpTo(r, n) ==
    IF n = 0 THEN <<>>
    ELSE ContactsUpTo(r, n - 1)
         \o (IF r.contacts[n] = 0 THEN <<>> ELSE <<ContactOf(n, r.contacts[n])>>)

\* DexClient.getContacts(limit, offset)
getContacts(r, limit, offset) ==
    LET all == ContactsUpTo(r, Cardinality(ContactIds))
    IN  SubSeq(all, offset + 1, Min(offset + limit, Len(all)))

\* DexClient.getNotes() without a contact filter
getNotes(r) == IF r.notes = 0 THEN <<>> ELSE <<NoteOf(r.notes)>>

\* DexClient.getReminders() without a contact filter
getReminders(r) == IF r.reminders = 0 THEN <<>> ELSE <<ReminderOf(r.reminders)>>

-----------------------------------------------------------------------------
(* FullTextSearchIndex: document extraction *)

Doc(cid, type, did, text, field, date, raw) ==
    [contactId |-> cid, documentType |-> type, documentId |-> did,
     searchableText |-> text,
     metadata |-> [field |-> field, date |-> date, rawContent |-> raw]]

extractContactDocuments(contact) ==
    (IF contact.first_name # <<>> \/ contact.last_name # <<>>
     THEN <<Doc(contact.id, "contact", contact.id,
                Trim(contact.first_name \o <<" ">> \o contact.last_name),
                "name", Undef, NoText)>>
     ELSE <<>>)
    \o (IF contact.job_title # <<>>
        THEN <<Doc(contact.id, "contact", contact.id, contact.job_title,
                   "job_title", Undef, NoText)>>
        ELSE <<>>)
    \o (IF contact.description # <<>>
        THEN <<Doc(contact.id, "contact", contact.id, contact.description,
                   "description", Undef, NoText)>>
        ELSE <<>>)
    \o [i \in 1..Len(contact.emails) |->
           Doc(contact.id, "contact", contact.id, contact.emails[i].email,
               "email", Undef, NoText)]
    \o [i \in 1..Len(contact.phones) |->
           Doc(contact.id, "contact", contact.id,
               Trim(contact.phones[i].phone_number \o <<" ">> \o contact.phones[i].label),
               "phone", Undef, NoText)]

\* markup arrives tokenised: a tag is one element of the string
LineTags == {"<br>", "<br/>", "</p>"}
OtherTags == {"<p>", "<b>", "</b>"}

RECURSIVE CollapseSpaces(_)
CollapseSpaces(s) ==
    IF s = <<>> THEN <<>>
    ELSE IF IsSpace(Head(s))
         THEN <<" ">> \o CollapseSpaces(TrimLeft(s))
         ELSE <<Head(s)>> \o CollapseSpaces(Tail(s))

stripHtml(html) ==
    LET untagged == [i \in 1..Len(html) |->
                        IF html[i] \in LineTags THEN "\n"
                        ELSE IF html[i] \in OtherTags THEN " "
                        ELSE html[i]]
    IN  Trim(CollapseSpaces(untagged))

extractNoteDocuments(note) ==
    LET plainText == stripHtml(note.note)
    IN  [i \in 1..Len(note.contacts) |->
            Doc(note.contacts[i].contact_id, "note", note.id, plainText,
                Undef, note.event_time, note.note)]

Completed == <<"c", "o", "m", "p", "l", "e", "t", "e", "d">>
Pending == <<"p", "e", "n", "d", "i", "n", "g">>

extractReminderDocuments(reminder) ==
    LET status == IF reminder.is_complete THEN Completed ELSE Pending
    IN  [i \in 1..Len(reminder.contact_ids) |->
            Doc(reminder.contact_ids[i].contact_id, "reminder", reminder.id,
                reminder.body \o <<" ">> \o status,
                Undef, reminder.due_at_date, reminder.body)]

RECURSIVE ExtractAll(_, _)
\* xs.forEach(x => documents.push(...extract(x)))
ExtractAll(extract(_), xs) ==
    IF xs = <<>> THEN <<>> ELSE extract(Head(xs)) \o ExtractAll(extract, Tail(xs))

\* Map.prototype.set
MapSet(map, k, v) == (k :> v) @@ map

RECURSIVE SetAll(_, _)
\* contacts.forEach(contact => this.contactsMap.set(contact.id, contact))
SetAll(map, cs) ==
    IF cs = <<>> THEN map
    ELSE SetAll(MapSet(map, Head(cs).id, Head(cs)), Tail(cs))

-----------------------------------------------------------------------------
(* FullTextSearchIndex: search *)

\* Fuse over searchableText with threshold 0.4, ignoreLocation and
\* minMatchCharLength 2, on the texts of this model: a text that holds the
\* query scores 0 (in thousandths), a text that does not is no result.
\* Results keep the list's order, as Fuse's sort does for equal scores.
FuseSearch(docs, query) ==
    LET hit(i) == Len(query) >= 2 /\ IndexOf(docs[i].searchableText, query) >= 0
        res(i) ==
            LET start == IndexOf(docs[i].searchableText, query)
            IN  [item |-> docs[i], score |-> 0,
                 matches |-> <<[indices |-> << <<start, start + Len(query) - 1>> >>]>>]
        RECURSIVE from(_)
        from(i) == IF i > Len(docs) THEN <<>>
                   ELSE (IF hit(i) THEN <<res(i)>> ELSE <<>>) \o from(i + 1)
    IN  from(1)

contextRadius == 60
Ellipsis == <<".", ".", ".">>
Bold == <<"*", "*">>

extractSnippet(text, fmatches) ==
    IF fmatches = <<>>
    THEN Substring(text, 0, 150) \o (IF Len(text) > 150 THEN Ellipsis ELSE <<>>)
    ELSE LET start == fmatches[1].indices[1][1]
             end == fmatches[1].indices[1][2]
             snippetStart == Max(0, start - contextRadius)
             snippetEnd == Min(Len(text), end + contextRadius)
             cut == Substring(text, snippetStart, snippetEnd)
             pre == IF snippetStart > 0 THEN Ellipsis \o cut ELSE cut
             snippet == IF snippetEnd < Len(text) THEN pre \o Ellipsis ELSE pre
             matchText == Substring(text, start, end + 1)
         IN  ReplaceFirst(snippet, matchText, Bold \o matchText \o Bold)

\* x || d, for a number that may be omitted
OrDefault(x, d) == IF x = Omitted \/ x = 0 THEN d ELSE x

\* Math.round((1 - score) * 100), the score in thousandths
ScoreToConfidence(score) == (1000 - score + 5) \div 10

RECURSIVE InsertSorted(_, _)
\* keeps the order of equal confidences (Array.prototype.sort is stable)
InsertSorted(sorted, r) ==
    IF sorted = <<>> THEN <<r>>
    ELSE IF Head(sorted).confidence >= r.confidence
         THEN <<Head(sorted)>> \o InsertSorted(Tail(sorted), r)
         ELSE <<r>> \o sorted

\* a sort that puts the least confident first
SortAscending(rs) ==
    LET RECURSIVE rev(_)
        rev(xs) == IF xs = <<>> THEN <<>> ELSE rev(Tail(xs)) \o <<Head(xs)>>
        RECURSIVE up(_, _)
        up(sorted, r) ==
            IF sorted = <<>> THEN <<r>>
            ELSE IF Head(sorted).confidence <= r.confidence
                 THEN <<Head(sorted)>> \o up(Tail(sorted), r)
                 ELSE <<r>> \o sorted
        RECURSIVE all(_)
        all(xs) == IF xs = <<>> THEN <<>>
                   ELSE up(all(SubSeq(xs, 1, Len(xs) - 1)), xs[Len(xs)])
    IN  all(rs)

RECURSIVE SortByConfidence(_)
\* results.sort((a, b) => b.confidence - a.confidence)
SortByConfidence(rs) ==
    IF rs = <<>> THEN <<>>
    ELSE InsertSorted(SortByConfidence(SubSeq(rs, 1, Len(rs) - 1)), rs[Len(rs)])

RECURSIVE FirstOccurrences(_, _)
FirstOccurrences(ks, seen) ==
    IF ks = <<>> THEN <<>>
    ELSE IF Head(ks) \in seen THEN FirstOccurrences(Tail(ks), seen)
         ELSE <<Head(ks)>> \o FirstOccurrences(Tail(ks), seen \cup {Head(ks)})

RECURSIVE MaxOf(_)
MaxOf(ns) == IF Len(ns) = 1 THEN ns[1] ELSE Max(Head(ns), MaxOf(Tail(ns)))

\* a bonus that grows without end
BonusUncapped(n) == n * 2

\* a bonus that does not count the matches
BonusFlat(n) == Min(2, 10)

\* Math.min(cm.matches.length * 2, 10)
multiMatchBonus(n) == Min(n * 2, 10)

\* FullTextSearchIndex.search from const fuseResults = this.fuse.search(query) on
searchOn(fuseResults, cmap, options) ==
    LET maxResults == OrDefault(options.maxResults, 10)
        minConfidence == OrDefault(options.minConfidence, 50)
        keep(r) == /\ (options.documentTypes.given
                          => r.item.documentType \in options.documentTypes.types)
                   /\ r.item.contactId \in DOMAIN cmap
                   /\ ScoreToConfidence(r.score) >= minConfidence
        kept == SelectSeq(fuseResults, keep)
        entry(r) == [contactId |-> r.item.contactId,
                     documentType |-> r.item.documentType,
                     field |-> IF r.item.metadata.field # Undef
                               THEN r.item.metadata.field ELSE r.item.documentType,
                     snippet |-> extractSnippet(r.item.searchableText, r.matches),
                     fullContent |-> r.item.metadata.rawContent,
                     score |-> ScoreToConfidence(r.score)]
        entries == [i \in 1..Len(kept) |-> entry(kept[i])]
        order == FirstOccurrences([i \in 1..Len(entries) |-> entries[i].contactId], {})
        result(cid) ==
            LET ms == SelectSeq(entries, LAMBDA e : e.contactId = cid)
                highestConfidence == MaxOf([i \in 1..Len(ms) |-> ms[i].score])
            IN  [contact |-> cmap[cid],
                 confidence |-> Min(100, highestConfidence + multiMatchBonus(Len(ms))),
                 matchContext |-> [i \in 1..Len(ms) |->
                                      [documentType |-> ms[i].documentType,
                                       field |-> ms[i].field,
                                       snippet |-> ms[i].snippet,
                                       fullContent |-> ms[i].fullContent]]]
        results == SortByConfidence([i \in 1..Len(order) |-> result(order[i])])
    IN  SubSeq(results, 1, Min(maxResults, Len(results)))

\* FullTextSearchIndex.search(query, options) on a built index
search(fuseDocs, cmap, query, options) ==
    searchOn(FuseSearch(fuseDocs, query), cmap, options)

-----------------------------------------------------------------------------
(* FullTextSearchIndex.refreshIndex and the search_contacts_full_text handler *)

limit == 100

Queries == {NameA}

\* the options a tool call may carry (max_results, min_confidence, include_types)
OptionSets ==
    {[maxResults |-> Omitted, minConfidence |-> Omitted,
      documentTypes |-> [given |-> FALSE, types |-> {}]]}

NoFuse == [built |-> FALSE, docs |-> <<>>]
\* the index as a refreshIndex call finds it (history, kept with the call)
IndexState == [documents |-> documents, fuse |-> fuse, contactsMap |-> contactsMap,
               lastRefresh |-> lastRefresh]

Idle == [pc |-> "idle", now |-> 0, documents |-> <<>>, contacts |-> <<>>,
         offset |-> 0, overtaken |-> FALSE, retry |-> FALSE,
         entry |-> [documents |-> <<>>, fuse |-> NoFuse, contactsMap |-> <<>>,
                    lastRefresh |-> 0]]
NoResponse == [seq |-> 0, by |-> 0, at |-> 0, isError |-> FALSE, searched |-> FALSE,
               cached |-> FALSE, query |-> <<>>, results |-> <<>>]

InFlight(c) == call[c].pc # "idle"

\* the TTL check without the test that a refresh has completed
FreshUnguarded(now) == (now - lastRefresh) < cacheTTL

\* the TTL check with the boundary included
FreshInclusive(now) == lastRefresh # 0 /\ (now - lastRefresh) <= cacheTTL

\* the TTL check at the head of refreshIndex
Fresh(now) == lastRefresh # 0 /\ (now - lastRefresh) < cacheTTL

\* the handler after refreshIndex has resolved: search, then the response.
\* The request's query and options are read here for the first time.
\* (cached: refreshIndex had returned at its TTL check.)
Respond(c, fuseNow, mapNow, cached) ==
    \E q \in Queries, o \in OptionSets :
        response' = IF fuseNow.built
                    THEN [seq |-> response.seq + 1, by |-> c, at |-> clock,
                          isError |-> FALSE, searched |-> TRUE, cached |-> cached,
                          query |-> <<q, o>>,
                          results |-> search(fuseNow.docs, mapNow, q, o)]
                    ELSE [seq |-> response.seq + 1, by |-> c, at |-> clock,
                          isError |-> TRUE, searched |-> FALSE, cached |-> cached,
                          query |-> <<q, o>>, results |-> <<>>]

\* a tool call arrives: refreshIndex runs up to its TTL check and either
\* returns at once (the handler then searches) or suspends in the first fetch
StartCall(c) ==
    /\ ~InFlight(c)
    /\ \A d \in Calls : d < c => InFlight(d)
    /\ starts < MaxStarts
    /\ starts' = starts + 1
    /\ IF Fresh(clock)
       THEN /\ Respond(c, fuse, contactsMap, TRUE)
            /\ UNCHANGED call
       ELSE /\ call' = [call EXCEPT ![c] = [Idle EXCEPT !.pc = "contacts",
                                                         !.now = clock,
                                                         !.retry = failPending,
                                                         !.entry = IndexState]]
            /\ UNCHANGED response
    /\ disturbed' = (disturbed \/ (~Fresh(clock) /\ \E d \in Calls : InFlight(d)))
    /\ UNCHANGED <<clock, remote, documents, fuse, contactsMap, mapStart, lastRefresh, cacheTTL,
                   changes, committed, lastOk, failPending>>

\* a page of loadAllContacts arrives; after the last page the contacts are
\* put in the map and their documents extracted, and the notes are requested
ContactsLoaded(c) ==
    /\ call[c].pc = "contacts"
    /\ LET batch == getContacts(remote, limit, call[c].offset)
           allContacts == call[c].contacts \o batch
       IN  IF Len(batch) < limit
           THEN /\ contactsMap' = SetAll(contactsMap, allContacts)
                /\ mapStart' = [id \in DOMAIN SetAll(contactsMap, allContacts) |->
                                   IF \E k \in DOMAIN allContacts : allContacts[k].id = id
                                   THEN call[c].now ELSE mapStart[id]]
                /\ call' = [call EXCEPT
                       ![c].pc = "notes",
                       ![c].contacts = allContacts,
                       ![c].documents = ExtractAll(extractContactDocuments, allContacts)]
           ELSE /\ call' = [call EXCEPT ![c].contacts = allContacts,
                                        ![c].offset = @ + limit]
                /\ UNCHANGED <<contactsMap, mapStart>>
    /\ UNCHANGED <<clock, remote, documents, fuse, lastRefresh, cacheTTL, response,
                   starts, changes, committed, lastOk, failPending, disturbed>>

\* the notes arrive; the reminders are requested
NotesLoaded(c) ==
    /\ call[c].pc = "notes"
    /\ call' = [call EXCEPT
           ![c].pc = "reminders",
           ![c].documents = @ \o ExtractAll(extractNoteDocuments, getNotes(remote))]
    /\ UNCHANGED <<clock, remote, documents, fuse, contactsMap, mapStart, lastRefresh, cacheTTL,
                   response, starts, changes, committed, lastOk, failPending, disturbed>>

StampAtCompletion(c) == clock

\* this.lastRefresh = now: the time the call read on entry
Stamp(c) == call[c].now

\* the reminders arrive: the new list is installed, Fuse rebuilt, lastRefresh
\* stamped with the time the call read on entry; the handler then searches
RemindersLoaded(c) ==
    /\ call[c].pc = "reminders"
    /\ LET docs == call[c].documents
                   \o ExtractAll(extractReminderDocuments, getReminders(remote))
           own == SetAll(<<>>, call[c].contacts)
       IN  /\ documents' = docs
           /\ fuse' = [built |-> TRUE, docs |-> docs]
           /\ lastRefresh' = Stamp(c)
           /\ Respond(c, [built |-> TRUE, docs |-> docs], contactsMap, FALSE)
           /\ committed' = [documents |-> docs, fuse |-> [built |-> TRUE, docs |-> docs],
                            contactsMap |-> contactsMap]
           /\ lastOk' = [n |-> lastOk.n + 1, start |-> call[c].now, end |-> clock,
                         documents |-> docs, map |-> own,
                         overtaken |-> call[c].overtaken]
    /\ call' = [d \in Calls |->
                   IF d = c THEN Idle
                   ELSE IF InFlight(d) THEN [call[d] EXCEPT !.overtaken = TRUE]
                   ELSE call[d]]
    /\ failPending' = FALSE
    /\ UNCHANGED <<clock, remote, contactsMap, mapStart, cacheTTL, starts, changes, disturbed>>

\* a refreshIndex that stamps lastRefresh on its way out of a failed fetch
RefreshThrowsStamped(c) ==
    /\ InFlight(c)
    /\ call' = [call EXCEPT ![c] = Idle]
    /\ response' = [seq |-> response.seq + 1, by |-> c, at |-> clock,
                    isError |-> TRUE, searched |-> FALSE, cached |-> FALSE,
                    query |-> <<>>, results |-> <<>>]
    /\ lastRefresh' = call[c].now
    /\ failPending' = (failPending \/ ~call[c].overtaken)
    /\ disturbed' = TRUE
    /\ UNCHANGED <<clock, remote, documents, fuse, contactsMap, mapStart, cacheTTL,
                   starts, changes, committed, lastOk>>

\* an awaited fetch rejects: refreshIndex throws, the handler's catch answers
RefreshThrows(c) ==
    /\ InFlight(c)
    /\ call' = [call EXCEPT ![c] = Idle]
    /\ response' = [seq |-> response.seq + 1, by |-> c, at |-> clock,
                    isError |-> TRUE, searched |-> FALSE, cached |-> FALSE,
                    query |-> <<>>, results |-> <<>>]
    /\ failPending' = (failPending \/ ~call[c].overtaken)
    /\ disturbed' = TRUE
    /\ UNCHANGED <<clock, remote, documents, fuse, contactsMap, mapStart, lastRefresh, cacheTTL,
                   starts, changes, committed, lastOk>>

\* somebody edits the CRM: one contact, the note or the reminder changes
RemoteChange ==
    /\ changes < MaxChanges
    /\ changes' = changes + 1
    /\ \E r \in RemoteStates :
          /\ r # remote
          /\ \/ r.notes = remote.notes /\ r.reminders = remote.reminders
                /\ Cardinality({i \in ContactIds : r.contacts[i] # remote.contacts[i]}) = 1
             \/ r.contacts = remote.contacts
                /\ (r.notes = remote.notes \/ r.reminders = remote.reminders)
          /\ remote' = r
    /\ UNCHANGED <<clock, documents, fuse, contactsMap, mapStart, lastRefresh, cacheTTL, call,
                   response, starts, committed, lastOk, failPending, disturbed>>

Tick ==
    /\ clock < MaxTime
    /\ clock' = clock + 1
    /\ UNCHANGED <<remote, documents, fuse, contactsMap, mapStart, lastRefresh, cacheTTL, call,
                   response, starts, changes, committed, lastOk, failPending, disturbed>>

NoError == ""

\* SearchParams with nothing supplied
NoParams == [name |-> <<>>, email |-> <<>>, phone |-> <<>>, social_url |-> <<>>,
             company |-> <<>>]

NoHit == 0 - 1

\* what Fuse's score rests on: the contact's names
NameKey(contact) == <<contact.first_name, contact.last_name>>

NameKeys == {<<NameA, <<>>>>, <<NameB, NameA>>}

NoHits == [k \in NameKeys |-> NoHit]

IndexNew ==
    /\ clock = 1
    /\ remote = InitialRemote
    /\ documents = <<>>
    /\ fuse = NoFuse
    /\ contactsMap = <<>>
    /\ mapStart = <<>>
    /\ lastRefresh = 0
    /\ cacheTTL = TTLTicks
    /\ call = [c \in Calls |-> Idle]
    /\ response = NoResponse
    /\ starts = 0
    /\ changes = 0
    /\ committed = [documents |-> <<>>, fuse |-> NoFuse, contactsMap |-> <<>>]
    /\ lastOk = [n |-> 0, start |-> 0, end |-> 0, documents |-> <<>>, map |-> <<>>,
                 overtaken |-> FALSE]
    /\ failPending = FALSE
    /\ disturbed = FALSE

\* private contacts: DexContact[] = []
MatcherNew ==
    /\ contacts = <<>> /\ params = NoParams /\ fuseHits = NoHits
    /\ matches = <<>> /\ matchesNoCo = <<>> /\ thrown = NoError

Acme == <<"a", "c", "m", "e">>
AcmeInc == Acme \o <<" ", "i", "n", "c">>
NameC == <<"c", "y">>

\* the texts of the index searched below
SearchTexts == {NameA, Acme, AcmeInc, NameB, NameC}

NoSearchHits == [t \in SearchTexts |-> NoHit]

\* no search call yet
SearchNew ==
    /\ searchHits = NoSearchHits /\ searchResults = <<>>
    /\ searchOptions = [maxResults |-> Omitted, minConfidence |-> Omitted,
                        documentTypes |-> [given |-> FALSE, types |-> {}]]

NormNew == normKind = "none" /\ normInput = <<>> /\ normOnce = <<>> /\ normTwice = <<>>

ReminderContactIds == {"c1", "c2", "c3"}

\* an id of no contact: if (contactId) takes it for an omitted one
NoContactId == ""

Unasked == [asked |-> FALSE, result |-> <<>>]

ReminderNew ==
    /\ remoteReminders = <<>>
    /\ reminderParams = [contact_id |-> NoContactId, status |-> "", date_from |-> Omitted,
                         outcome |-> "none"]
    /\ reminderResult = <<>>
    /\ answered = [c \in ReminderContactIds \cup {NoContactId} |-> Unasked]

NoToolRequest == [name |-> "", hasArgs |-> FALSE, identifier |-> "none"]
NoToolResponse == [isError |-> FALSE, text |-> <<>>]

HandlerNew ==
    /\ toolRequest = NoToolRequest /\ toolResponse = NoToolResponse
    /\ toolFailures = {} /\ served = 0 /\ erred = FALSE
    /\ cacheFresh = FALSE /\ indexFresh = FALSE

\* an optional array: absent (Array.isArray is false), or its items
NoList == [isArray |-> FALSE, items |-> <<>>]
\* an optional scalar: undefined, or its value
NotGiven == [given |-> FALSE, value |-> ""]

NoFields == [tags |-> NoList, social_profiles |-> NoList, company |-> NotGiven,
             custom |-> NotGiven]

EnrichNew ==
    /\ storedContact = NoFields /\ enrichBefore = NoFields /\ sentUpdates = NoFields
    /\ enrichParams = [updates |-> [given |-> FALSE, fields |-> NoFields],
                       direct |-> NoFields]
    /\ epc = "off"

SnippetNew == snipText = <<>> /\ snipSpan = <<0, 0>> /\ snippetOut = <<>> /\ snpc = "off"

LoaderNew == ldRemote = <<>> /\ ldOffset = 0 /\ ldAll = <<>> /\ ldRequests = <<>> /\ ldError = "" /\ ldpc = "off"

DiscoveryNew == dClock = 1 /\ dRemote = 0 /\ contactsCache = [set |-> FALSE, list |-> <<>>] /\ cacheTimestamp = 0 /\ matcherContacts = <<>> /\ dCall = <<>> /\ dEnrich = "off" /\ dEnriched = 0 /\ dLoad = <<>> /\ dResult = <<>> /\ dFinds = 0 /\ dUpdates = 0

Init == IndexNew /\ MatcherNew /\ mpc = "off" /\ SearchNew /\ spc = "off" /\ NormNew /\ DiscoveryNew /\ LoaderNew /\ SnippetNew /\ EnrichNew /\ HandlerNew /\ ReminderNew

Next ==
    \/ \E c \in Calls : StartCall(c) /\ UNCHANGED besideIndex
    \/ \E c \in Calls : ContactsLoaded(c) /\ UNCHANGED besideIndex
    \/ \E c \in Calls : NotesLoaded(c) /\ UNCHANGED besideIndex
    \/ \E c \in Calls : RemindersLoaded(c) /\ UNCHANGED besideIndex
    \/ \E c \in Calls : RefreshThrows(c) /\ UNCHANGED besideIndex
    \/ RemoteChange /\ UNCHANGED besideIndex
    \/ Tick /\ UNCHANGED besideIndex

Spec == Init /\ [][Next]_vars

-----------------------------------------------------------------------------
(* ContactMatcher: normalizers *)

\* the upper-case letters (and upper-case spellings of tokens) of this model
UpperToLower ==
    ("A" :> "a") @@ ("B" :> "b") @@ ("C" :> "c") @@ ("E" :> "e") @@ ("I" :> "i")
    @@ ("J" :> "j") @@ ("M" :> "m") @@ ("N" :> "n") @@ ("O" :> "o") @@ ("X" :> "x") @@ ("LINKEDIN.COM/IN/" :> "linkedin.com/in/")
    @@ ("TWITTER.COM/" :> "twitter.com/") @@ ("HTTPS://" :> "https://")
    @@ ("WWW." :> "www.") @@ ("LINKEDIN.COM" :> "linkedin.com") @@ ("IN" :> "in")
    @@ ("TWITTER.COM" :> "twitter.com")

\* String.prototype.toLowerCase
ToLower(s) == [i \in 1..Len(s) |->
                  IF s[i] \in DOMAIN UpperToLower THEN UpperToLower[s[i]] ELSE s[i]]

Digits == {"0", "1", "2", "3", "4", "5", "6", "7", "8", "9"}

normalizeEmail(email) == Trim(ToLower(email))

normalizePhone(phone) ==
    LET digits == SelectSeq(phone, LAMBDA ch : ch \in Digits)
    IN  IF Len(digits) > 10 THEN SubSeq(digits, Len(digits) - 9, Len(digits)) ELSE digits

\* URLs arrive tokenised: a scheme, "www." and a site's path prefix are one
\* element each; everything else is one character per element
LinkedinPrefix == {"linkedin.com/in/", "LINKEDIN.COM/IN/"}
SocialPrefix == {"facebook.com/", "twitter.com/", "instagram.com/", "telegram.com/",
                 "TWITTER.COM/"}
Schemes == {"http://", "https://", "HTTPS://"}

RECURSIVE TakeUntil(_, _)
\* the longest prefix of s with no element in stops
TakeUntil(s, stops) ==
    IF s = <<>> \/ Head(s) \in stops THEN <<>>
    ELSE <<Head(s)>> \o TakeUntil(Tail(s), stops)

\* url.match(/<prefix>([^\/\?]+)/i): the capture of the first match, or <<>>

\* the elements that end in a slash, without it
SansSlash ==
    ("https://" :> "https:/") @@ ("http://" :> "http:/")
    @@ ("linkedin.com/in/" :> "linkedin.com/in") @@ ("facebook.com/" :> "facebook.com")
    @@ ("twitter.com/" :> "twitter.com") @@ ("instagram.com/" :> "instagram.com")
    @@ ("telegram.com/" :> "telegram.com")
    @@ ("LINKEDIN.COM/IN/" :> "LINKEDIN.COM/IN") @@ ("TWITTER.COM/" :> "TWITTER.COM")
    @@ ("HTTPS://" :> "HTTPS:/")

\* s.replace(/\/$/, '')
DropTrailingSlash(s) ==
    IF s = <<>> THEN s
    ELSE IF s[Len(s)] = "/" THEN SubSeq(s, 1, Len(s) - 1)
    ELSE IF s[Len(s)] \in DOMAIN SansSlash
         THEN SubSeq(s, 1, Len(s) - 1) \o <<SansSlash[s[Len(s)]]>>
    ELSE s

\* a site's path prefix as host and path
Exploded ==
    ("linkedin.com/in/" :> <<"linkedin.com", "/", "in", "/">>)
    @@ ("facebook.com/" :> <<"facebook.com", "/">>)
    @@ ("twitter.com/" :> <<"twitter.com", "/">>)
    @@ ("instagram.com/" :> <<"instagram.com", "/">>)
    @@ ("telegram.com/" :> <<"telegram.com", "/">>)
    @@ ("LINKEDIN.COM/IN/" :> <<"LINKEDIN.COM", "/", "IN", "/">>)
    @@ ("TWITTER.COM/" :> <<"TWITTER.COM", "/">>)

RECURSIVE Explode(_)
Explode(s) ==
    IF s = <<>> THEN <<>>
    ELSE (IF Head(s) \in DOMAIN Exploded THEN Exploded[Head(s)] ELSE <<Head(s)>>)
         \o Explode(Tail(s))

\* url.match(/<prefix>([^\/\?]+)/i): the capture of the first match, or <<>>
CaptureAfter(url, prefixes) ==
    LET capture(i) == TakeUntil(Explode(SubSeq(url, i + 1, Len(url))), {"/", "?"})
        at == {i \in 1..Len(url) : url[i] \in prefixes /\ capture(i) # <<>>}
    IN  IF at = {} THEN <<>>
        ELSE capture(CHOOSE i \in at : \A j \in at : i <= j)

RECURSIVE DropLeadingSlashes(_)
DropLeadingSlashes(s) ==
    IF s # <<>> /\ Head(s) = "/" THEN DropLeadingSlashes(Tail(s)) ELSE s

\* new URL(url): [ok, hostname, pathname]; it throws without a scheme or a
\* host. For URLs whose only scheme is at the head, with no user info and no
\* blank after it.
ParseUrl(url) ==
    LET t == Trim(url)
        rest == IF t = <<>> THEN <<>> ELSE DropLeadingSlashes(Explode(Tail(t)))
        host == TakeUntil(rest, {"/", "?", "#"})
        after == SubSeq(rest, Len(host) + 1, Len(rest))
        path == IF after # <<>> /\ Head(after) = "/"
                THEN TakeUntil(after, {"?", "#"}) ELSE <<"/">>
    IN  IF t # <<>> /\ Head(t) \in Schemes /\ host # <<>>
        THEN [ok |-> TRUE, hostname |-> ToLower(host), pathname |-> path]
        ELSE [ok |-> FALSE, hostname |-> <<>>, pathname |-> <<>>]

normalizeUrl(url) ==
    LET linkedinMatch == CaptureAfter(url, LinkedinPrefix)
        socialMatch == CaptureAfter(url, SocialPrefix)
        urlObj == ParseUrl(url)
        noSlash == DropTrailingSlash(Trim(ToLower(url)))
        noScheme == IF noSlash # <<>> /\ Head(noSlash) \in Schemes
                    THEN Tail(noSlash) ELSE noSlash
    IN  IF linkedinMatch # <<>> THEN Trim(ToLower(linkedinMatch))
        ELSE IF socialMatch # <<>> THEN Trim(ToLower(socialMatch))
        ELSE IF urlObj.ok
             THEN urlObj.hostname \o DropTrailingSlash(ToLower(urlObj.pathname))
        ELSE IF noScheme # <<>> /\ Head(noScheme) = "@" THEN Tail(noScheme)
        ELSE noScheme

-----------------------------------------------------------------------------
(* ContactMatcher: findMatches *)

Match(contact, confidence, reason) ==
    [contact |-> contact, confidence |-> confidence, match_reason |-> reason]

HasEmail(contact, normalizedEmail) ==
    \E i \in 1..Len(contact.emails) :
        normalizeEmail(contact.emails[i].email) = normalizedEmail

HasPhone(contact, normalizedPhone) ==
    \E i \in 1..Len(contact.phones) :
        normalizePhone(contact.phones[i].phone_number) = normalizedPhone

\* [linkedin, facebook, twitter, instagram, telegram].filter(Boolean)
SocialUrls(contact) ==
    SelectSeq(<<contact.linkedin, contact.facebook, contact.twitter,
                contact.instagram, contact.telegram>>, LAMBDA u : u # <<>>)

HasSocialUrl(contact, normalizedUrl) ==
    \E i \in 1..Len(SocialUrls(contact)) :
        normalizeUrl(SocialUrls(contact)[i]) = normalizedUrl

findByEmail(cs, email) ==
    LET hits == SelectSeq(cs, LAMBDA c : HasEmail(c, normalizeEmail(email)))
    IN  [i \in 1..Len(hits) |-> Match(hits[i], 100, "Exact email match")]

findByPhone(cs, phone) ==
    LET hits == SelectSeq(cs, LAMBDA c : HasPhone(c, normalizePhone(phone)))
    IN  [i \in 1..Len(hits) |-> Match(hits[i], 100, "Exact phone match")]

findBySocialUrl(cs, url) ==
    LET hits == SelectSeq(cs, LAMBDA c : HasSocialUrl(c, normalizeUrl(url)))
    IN  [i \in 1..Len(hits) |-> Match(hits[i], 100, "Exact social profile match")]

RECURSIVE InsertByScore(_, _)
InsertByScore(sorted, r) ==
    IF sorted = <<>> THEN <<r>>
    ELSE IF Head(sorted).score <= r.score
         THEN <<Head(sorted)>> \o InsertByScore(Tail(sorted), r)
         ELSE <<r>> \o sorted

RECURSIVE SortByScore(_)
SortByScore(rs) ==
    IF rs = <<>> THEN <<>>
    ELSE InsertByScore(SortByScore(SubSeq(rs, 1, Len(rs) - 1)), rs[Len(rs)])

\* new Fuse(searchableContacts, {keys: full_name, first_name, last_name}).search(name):
\* the engine's verdict on each name is given by `scores` (NoHit, or a score
\* in thousandths); results come best score first, list order among equals
FuseNameSearch(cs, scores) ==
    LET hits == SelectSeq(cs, LAMBDA c : scores[NameKey(c)] # NoHit)
    IN  SortByScore([i \in 1..Len(hits) |->
                        [item |-> hits[i], score |-> scores[NameKey(hits[i])]]])

\* a conversion that keeps 100 out of reach
fuseScoreToConfidenceBelow100(fuseScore) == Min(990, Max(0, 1000 - fuseScore))

\* (1 - fuseScore) * 100, floored at 0, in tenths
fuseScoreToConfidence(fuseScore) == Max(0, 1000 - fuseScore)

RECURSIVE SplitSpaces(_, _)
\* str.split(/\s+/): the words, with an empty one before a leading and after a
\* trailing run of spaces (word is the word being read)
SplitSpaces(s, word) ==
    IF s = <<>> THEN <<word>>
    ELSE IF IsSpace(Head(s)) THEN <<word>> \o SplitSpaces(TrimLeft(s), <<>>)
         ELSE SplitSpaces(Tail(s), word \o <<Head(s)>>)

Range(f) == {f[i] : i \in DOMAIN f}

\* Jaccard similarity of the word sets, as the pair <<|intersection|, |union|>>
compareStrings(str1, str2) ==
    LET words1 == Range(SplitSpaces(str1, <<>>))
        words2 == Range(SplitSpaces(str2, <<>>))
    IN  <<Cardinality(words1 \cap words2), Cardinality(words1 \cup words2)>>

\* companyMatch > 0.8
CompanyMatches(company, job_title) ==
    LET r == compareStrings(ToLower(company), ToLower(job_title))
    IN  10 * r[1] > 8 * r[2]

\* Math.min(100, confidence + 15) with the cap left out
BoostUncapped(confidence) == confidence + 150

\* Math.min(100, confidence + 15), in tenths
Boost(confidence) == Min(1000, confidence + 150)

\* the floor read as a fraction
PassesFloorAsFraction(confidence) == confidence >= 6

\* confidence >= 60, in tenths
PassesFloor(confidence) == confidence >= 600

\* Math.round, from tenths
Round(tenths) == (tenths + 5) \div 10

findByName(cs, scores, company) ==
    LET results == FuseNameSearch(cs, scores)
        boosted(r) == company # <<>> /\ r.item.job_title # <<>>
                      /\ CompanyMatches(company, r.item.job_title)
        confidence(r) == IF boosted(r) THEN Boost(fuseScoreToConfidence(r.score))
                         ELSE fuseScoreToConfidence(r.score)
        kept == SelectSeq(results, LAMBDA r : PassesFloor(confidence(r)))
    IN  [i \in 1..Len(kept) |->
            Match(kept[i].item, Round(confidence(kept[i])),
                  IF boosted(kept[i]) THEN "Name and company match"
                  ELSE "Name fuzzy match")]

\* deduplication that keeps everything
KeepAll(ms) == ms

deduplicateMatches(ms) ==
    LET firstOf(i) == \A j \in 1..(i - 1) : ms[j].contact.id # ms[i].contact.id
        RECURSIVE from(_)
        from(i) == IF i > Len(ms) THEN <<>>
                   ELSE (IF firstOf(i) THEN <<ms[i]>> ELSE <<>>) \o from(i + 1)
    IN  from(1)

sortAndLimitMatches(ms) ==
    LET sorted == SortByConfidence(ms)
    IN  SubSeq(sorted, 1, Min(5, Len(sorted)))

\* findMatches that goes on to the names whatever the identifiers found
findMatchesNoEarlyReturn(cs, p, scores) ==
    LET exact == (IF p.email # <<>> THEN findByEmail(cs, p.email) ELSE <<>>)
                 \o (IF p.phone # <<>> THEN findByPhone(cs, p.phone) ELSE <<>>)
                 \o (IF p.social_url # <<>> THEN findBySocialUrl(cs, p.social_url)
                     ELSE <<>>)
    IN  sortAndLimitMatches(
            deduplicateMatches(
                exact \o (IF p.name # <<>> THEN findByName(cs, scores, p.company)
                          ELSE <<>>)))

\* ContactMatcher.findMatches(params) over this.contacts = cs; scores is
\* Fuse's verdict on params.name
findMatches(cs, p, scores) ==
    LET exact == (IF p.email # <<>> THEN findByEmail(cs, p.email) ELSE <<>>)
                 \o (IF p.phone # <<>> THEN findByPhone(cs, p.phone) ELSE <<>>)
                 \o (IF p.social_url # <<>> THEN findBySocialUrl(cs, p.social_url)
                     ELSE <<>>)
    IN  IF Len(exact) > 0 THEN deduplicateMatches(exact)
        ELSE sortAndLimitMatches(
                 IF p.name # <<>> THEN findByName(cs, scores, p.company) ELSE <<>>)

-----------------------------------------------------------------------------
(* The matcher at work: setContacts, then findMatches *)

MaxContacts == 6

\* four people; identifiers that differ only in what normalization removes
Profile(k) ==
    IF k = 1 THEN
        [first_name |-> NameA, last_name |-> <<>>, job_title |-> AcmeInc,
         emails |-> <<[email |-> <<"A", "@", "x">>]>>,
         phones |-> <<[phone_number |->
                        <<"+", "1", " ", "2", "3", "4", "5", "6", "7", "8", "9", "0", "1">>]>>,
         linkedin |-> <<"https://", "www.", "linkedin.com/in/", "J", "o", "/">>,
         twitter |-> <<>>]
    ELSE IF k = 2 THEN
        [first_name |-> NameB, last_name |-> NameA,
         job_title |-> <<"I", "N", "C", " ", "A", "C", "M", "E">>,
         emails |-> <<[email |-> <<"z", "@", "x">>], [email |-> <<"a", "@", "x", " ">>]>>,
         phones |-> <<[phone_number |->
                        <<"2", "3", "4", "-", "5", "6", "7", "-", "8", "9", "0", "1">>]>>,
         linkedin |-> <<>>,
         twitter |-> <<"@", "j", "o">>]
    ELSE IF k = 3 THEN
        [first_name |-> NameA, last_name |-> <<>>, job_title |-> Acme,
         emails |-> <<>>,
         phones |-> <<[phone_number |-> <<"n", "/", "a">>]>>,
         linkedin |-> <<>>,
         twitter |-> <<>>]
    ELSE
        [first_name |-> NameB, last_name |-> NameA, job_title |-> <<>>,
         emails |-> <<>>,
         phones |-> <<>>,
         linkedin |-> <<"http://", "x", ".", "y", "/", "J", "o", "/">>,
         twitter |-> <<>>]

Profiles == {1, 2, 3, 4}

Person(i, k) ==
    [id |-> i,
     first_name |-> Profile(k).first_name, last_name |-> Profile(k).last_name,
     job_title |-> Profile(k).job_title, description |-> <<>>,
     emails |-> Profile(k).emails, phones |-> Profile(k).phones,
     linkedin |-> Profile(k).linkedin, facebook |-> <<>>,
     twitter |-> Profile(k).twitter, instagram |-> <<>>, telegram |-> <<>>]

\* contact lists with distinct ids; from the third on, the people are alike
ContactLists ==
    {[i \in 1..n |-> Person(i, f[Min(i, 3)])] :
        n \in 0..MaxContacts, f \in [1..3 -> Profiles]}

\* an empty string is a parameter not supplied
EmailParams == {<<>>, <<" ", "a", "@", "X">>, <<"z", "@", "x">>}
PhoneParams == {<<>>, <<"(", "2", "3", "4", ")", "5", "6", "7", "8", "9", "0", "1">>,
                <<"a", "b", "c">>}
SocialParams == {<<>>, <<"TWITTER.COM/", "J", "o">>}
NameParams == {<<>>, NameA}
CompanyParams == {<<>>, <<"A", "c", "m", "e", " ", " ", "i", "n", "c">>, Acme}

SearchParams ==
    [name : NameParams, email : EmailParams, phone : PhoneParams,
     social_url : SocialParams, company : CompanyParams]

\* Fuse scores, in thousandths
FuseScores == {0, 125, 375, 500, 625}

\* Fuse's verdicts on the two names of the profiles
NameHitTables ==
    {(<<NameA, <<>>>> :> a) @@ (<<NameB, NameA>> :> b) :
        a \in FuseScores \cup {NoHit}, b \in {NoHit, 0, 125, 500}}

SetContacts ==
    /\ mpc = "new"
    /\ \E cs \in ContactLists : contacts' = cs
    /\ mpc' = "set"
    /\ UNCHANGED <<params, fuseHits, matches, matchesNoCo, thrown>>

\* findMatches(p), and beside it the same call without the company
FindMatches ==
    /\ mpc = "set"
    /\ \E p \in SearchParams :
       \E scores \in NameHitTables :
           /\ p.name = <<>> => scores = NoHits
           /\ params' = p
           /\ fuseHits' = scores
           /\ matches' = findMatches(contacts, p, scores)
           /\ matchesNoCo' = findMatches(contacts, [p EXCEPT !.company = <<>>], scores)
    /\ mpc' = "found"
    /\ thrown' = NoError
    /\ UNCHANGED contacts

\* the check that also lets a lone company through
NoIdentifierNorCompany(p) ==
    p.name = <<>> /\ p.email = <<>> /\ p.phone = <<>> /\ p.social_url = <<>>
    /\ p.company = <<>>

\* !params.name && !params.email && !params.phone && !params.social_url
NoIdentifier(p) ==
    p.name = <<>> /\ p.email = <<>> /\ p.phone = <<>> /\ p.social_url = <<>>

ValidationMessage ==
    "At least one search parameter (name, email, phone, or social_url) is required"

\* ContactDiscoveryTools.findContact(p) up to its first await: it throws, or
\* goes on to the remote
FindContact ==
    /\ mpc = "new"
    /\ \E p \in SearchParams :
           /\ params' = p
           /\ IF NoIdentifier(p)
              THEN mpc' = "rejected" /\ thrown' = ValidationMessage
              ELSE mpc' = "accepted" /\ thrown' = NoError
    /\ UNCHANGED <<contacts, fuseHits, matches, matchesNoCo>>

InitMatch ==
    IndexNew /\ MatcherNew /\ mpc = "new" /\ SearchNew /\ spc = "off" /\ NormNew /\ DiscoveryNew /\ LoaderNew /\ SnippetNew /\ EnrichNew /\ HandlerNew /\ ReminderNew

NextMatch ==
    \/ SetContacts /\ UNCHANGED besideMatch
    \/ FindMatches /\ UNCHANGED besideMatch
    \/ FindContact /\ UNCHANGED besideMatch

SpecMatch == InitMatch /\ [][NextMatch]_vars

-----------------------------------------------------------------------------
(* The index at work: search on a built index *)

MaxIndexed == 12

\* the contacts of the account: the first has a job title, the others a name
IndexedContact(i) ==
    [id |-> i,
     first_name |-> IF i = 1 THEN NameA ELSE IF i = 2 THEN NameB ELSE NameC,
     last_name |-> <<>>,
     job_title |-> IF i = 1 THEN Acme ELSE <<>>,
     description |-> <<>>, emails |-> <<>>, phones |-> <<>>,
     linkedin |-> <<>>, facebook |-> <<>>, twitter |-> <<>>,
     instagram |-> <<>>, telegram |-> <<>>]

\* four notes of one text on contact 1, the first also on a contact the
\* account no longer lists
IndexedNote(k) ==
    [id |-> k,
     note |-> <<"<p>">> \o AcmeInc \o <<"</p>">>,
     event_time |-> "d1",
     contacts |-> IF k = 1 THEN <<[contact_id |-> 1], [contact_id |-> 0]>>
                  ELSE <<[contact_id |-> 1]>>]

IndexedNotes == <<IndexedNote(1), IndexedNote(2), IndexedNote(3), IndexedNote(4)>>

IndexedContacts(n) == [i \in 1..n |-> IndexedContact(i)]

\* the index as a successful refreshIndex at time 1 leaves it
IndexBuilt(n) ==
    LET docs == ExtractAll(extractContactDocuments, IndexedContacts(n))
                \o ExtractAll(extractNoteDocuments, IndexedNotes)
    IN  /\ clock = 1
        /\ remote = InitialRemote
        /\ documents = docs
        /\ fuse = [built |-> TRUE, docs |-> docs]
        /\ contactsMap = SetAll(<<>>, IndexedContacts(n))
        /\ mapStart = [id \in DOMAIN SetAll(<<>>, IndexedContacts(n)) |-> 1]
        /\ lastRefresh = 1
        /\ cacheTTL = TTLTicks
        /\ call = [c \in Calls |-> Idle]
        /\ response = NoResponse
        /\ starts = 1
        /\ changes = 0
        /\ committed = [documents |-> docs, fuse |-> [built |-> TRUE, docs |-> docs],
                        contactsMap |-> SetAll(<<>>, IndexedContacts(n))]
        /\ lastOk = [n |-> 1, start |-> 1, end |-> 1, documents |-> docs,
                     map |-> SetAll(<<>>, IndexedContacts(n)), overtaken |-> FALSE]
        /\ failPending = FALSE
        /\ disturbed = FALSE

\* Fuse scores of the texts, in thousandths; equal texts score alike
SearchHitTables ==
    {(NameA :> a) @@ (Acme :> b) @@ (AcmeInc :> c) @@ (NameB :> d) @@ (NameC :> e) :
        a \in {NoHit, 0, 250, 625}, b \in {NoHit, 0, 250, 625},
        c \in {NoHit, 250, 625}, d \in {NoHit, 0, 625}, e \in {NoHit, 0, 250}}

\* this.fuse.search(query) with includeScore and includeMatches: the documents
\* Fuse takes for hits, best score first, list order among equals
FuseResults(docs, hits) ==
    LET found == SelectSeq(docs, LAMBDA d : hits[d.searchableText] # NoHit)
    IN  SortByScore([i \in 1..Len(found) |->
            [item |-> found[i], score |-> hits[found[i].searchableText],
             matches |-> <<[indices |->
                              << <<0, Len(found[i].searchableText) - 1>> >>]>>]])

SearchOptions ==
    [maxResults : {Omitted, 1, 2},
     minConfidence : {Omitted, 0, 38, 39},
     documentTypes : {[given |-> FALSE, types |-> {}],
                      [given |-> TRUE, types |-> {"note"}]}]

\* searchIndex.search(query, options)
Search ==
    /\ spc = "built"
    /\ \E hits \in SearchHitTables : \E options \in SearchOptions :
           /\ searchHits' = hits
           /\ searchOptions' = options
           /\ searchResults' = searchOn(FuseResults(fuse.docs, hits), contactsMap, options)
    /\ spc' = "searched"

InitSearch ==
    /\ \E n \in 2..MaxIndexed : IndexBuilt(n)
    /\ MatcherNew /\ mpc = "off"
    /\ SearchNew /\ spc = "built"
    /\ NormNew /\ DiscoveryNew /\ LoaderNew /\ SnippetNew /\ EnrichNew /\ HandlerNew /\ ReminderNew

NextSearch == Search /\ UNCHANGED besideSearch

SpecSearch == InitSearch /\ [][NextSearch]_vars

-----------------------------------------------------------------------------
(* The normalizers, each applied to a string and to its own output *)

MaxLen == 3

SeqsUpTo(A, n) == UNION {[1..k -> A] : k \in 0..n}

EmailInputs == SeqsUpTo({"A", "a", " ", "@"}, MaxLen)

\* short numbers, and numbers around the ten digits kept
PhoneInputs ==
    SeqsUpTo({"1", "2", "-"}, MaxLen)
    \cup {<<"+", "9", "8", "7", "6", "5", "4", "3", "2">> \o s :
             s \in SeqsUpTo({"1", "-"}, MaxLen)}

\* handles and URLs; a scheme only at the head, and after it neither user
\* info nor a blank
UrlInputs ==
    {u \in SeqsUpTo({"@", "/", "?", " ", "j", "J", "https://", "TWITTER.COM/",
                     "linkedin.com/in/"}, MaxLen) :
        /\ \A i \in 2..Len(u) : u[i] \notin Schemes
        /\ (u # <<>> /\ u[1] \in Schemes) => \A i \in 2..Len(u) : u[i] \notin {"@", " "}}

NormalizeEmail ==
    /\ normKind = "none"
    /\ \E x \in EmailInputs :
           /\ normInput' = x
           /\ normOnce' = normalizeEmail(x)
           /\ normTwice' = normalizeEmail(normalizeEmail(x))
    /\ normKind' = "email"

NormalizePhone ==
    /\ normKind = "none"
    /\ \E x \in PhoneInputs :
           /\ normInput' = x
           /\ normOnce' = normalizePhone(x)
           /\ normTwice' = normalizePhone(normalizePhone(x))
    /\ normKind' = "phone"

NormalizeUrl ==
    /\ normKind = "none"
    /\ \E x \in UrlInputs :
           /\ normInput' = x
           /\ normOnce' = normalizeUrl(x)
           /\ normTwice' = normalizeUrl(normalizeUrl(x))
    /\ normKind' = "url"

InitNorm ==
    IndexNew /\ MatcherNew /\ mpc = "off" /\ SearchNew /\ spc = "off" /\ NormNew /\ DiscoveryNew /\ LoaderNew /\ SnippetNew /\ EnrichNew /\ HandlerNew /\ ReminderNew

NextNorm ==
    \/ NormalizeEmail /\ UNCHANGED besideNorm
    \/ NormalizePhone /\ UNCHANGED besideNorm
    \/ NormalizeUrl /\ UNCHANGED besideNorm

SpecNorm == InitNorm /\ [][NextNorm]_vars

-----------------------------------------------------------------------------
(* RelationshipHistoryTools.getContactReminders over DexClient.getReminders *)

MaxReminders == 3

\* due_at_date and date_from are ISO dates of one format, written as day
\* numbers: their string order and their Date order are this order
Reminder(k) ==
    CASE k = 1 -> [id |-> "r1", contact_ids |-> <<"c1">>, is_complete |-> FALSE,
                   due_at_date |-> 2]
      [] k = 2 -> [id |-> "r2", contact_ids |-> <<"c1", "c2">>, is_complete |-> FALSE,
                   due_at_date |-> 1]
      [] k = 3 -> [id |-> "r3", contact_ids |-> <<"c3", "c2">>, is_complete |-> TRUE,
                   due_at_date |-> 3]
      [] OTHER -> [id |-> "r4", contact_ids |-> <<>>, is_complete |-> TRUE,
                   due_at_date |-> 2]

\* the bodies GET /reminders can carry: lists of distinct reminders
ReminderLists ==
    {l \in SeqsUpTo(1..4, MaxReminders) : \A i, j \in DOMAIN l : i # j => l[i] # l[j]}

\* filter(reminder => reminder.contact_ids.some(c => c.contact_id === contactId))
RECURSIVE FilterReminders(_, _)
FilterReminders(rs, keep) ==
    IF rs = <<>> THEN <<>>
    ELSE (IF Head(rs).id \in keep THEN <<Head(rs)>> ELSE <<>>)
         \o FilterReminders(Tail(rs), keep)

IdsWhere(rs, Test(_)) == {rs[i].id : i \in {j \in DOMAIN rs : Test(rs[j])}}

getRemindersOfFirstContact(allReminders, contactId) ==
    IF contactId # NoContactId
    THEN FilterReminders(allReminders,
             IdsWhere(allReminders,
                 LAMBDA r : r.contact_ids # <<>> /\ r.contact_ids[1] = contactId))
    ELSE allReminders

\* DexClient.getReminders(contactId) over the body of GET /reminders
getRemindersOf(allReminders, contactId) ==
    IF contactId # NoContactId
    THEN FilterReminders(allReminders,
             IdsWhere(allReminders,
                 LAMBDA r : \E i \in DOMAIN r.contact_ids : r.contact_ids[i] = contactId))
    ELSE allReminders

\* filtered.sort((a, b) => Date(b.due_at_date) - Date(a.due_at_date)), stable
RECURSIVE InsertByDue(_, _)
InsertByDue(sorted, r) ==
    IF sorted = <<>> THEN <<r>>
    ELSE IF Head(sorted).due_at_date >= r.due_at_date
         THEN <<Head(sorted)>> \o InsertByDue(Tail(sorted), r)
         ELSE <<r>> \o sorted

RECURSIVE SortByDue(_)
SortByDue(rs) ==
    IF rs = <<>> THEN <<>>
    ELSE InsertByDue(SortByDue(SubSeq(rs, 1, Len(rs) - 1)), rs[Len(rs)])

getContactReminders(allReminders, p) ==
    LET reminders == getRemindersOf(allReminders, p.contact_id)
        byStatus ==
            IF p.status # "" /\ p.status # "all"
            THEN FilterReminders(reminders,
                     IdsWhere(reminders,
                         LAMBDA r : r.is_complete = (p.status = "completed")))
            ELSE reminders
        byDate ==
            IF p.date_from # Omitted
            THEN FilterReminders(byStatus,
                     IdsWhere(byStatus, LAMBDA r : r.due_at_date >= p.date_from))
            ELSE byStatus
    IN  SortByDue(byDate)

ReminderParams ==
    [contact_id : ReminderContactIds \cup {NoContactId},
     status : {"", "all", "active", "completed"},
     date_from : {Omitted, 2}]

Unfiltered(p) == p.status \in {"", "all"} /\ p.date_from = Omitted

\* the call returns what the remote's answer gives
GetContactReminders ==
    \E p \in ReminderParams :
        LET result == getContactReminders(remoteReminders, p)
        IN  /\ reminderParams' = [contact_id |-> p.contact_id, status |-> p.status,
                                   date_from |-> p.date_from, outcome |-> "returned"]
            /\ reminderResult' = result
            /\ answered' = IF Unfiltered(p)
                            THEN [answered EXCEPT ![p.contact_id] =
                                      [asked |-> TRUE, result |-> result]]
                            ELSE answered
            /\ UNCHANGED remoteReminders

\* GET /reminders fails: the call rejects and returns nothing
GetContactRemindersFails ==
    \E p \in ReminderParams :
        /\ reminderParams' = [contact_id |-> p.contact_id, status |-> p.status,
                               date_from |-> p.date_from, outcome |-> "thrown"]
        /\ reminderResult' = <<>>
        /\ UNCHANGED <<remoteReminders, answered>>

InitReminders ==
    /\ IndexNew /\ MatcherNew /\ mpc = "off" /\ SearchNew /\ spc = "off" /\ NormNew /\ SnippetNew /\ LoaderNew /\ DiscoveryNew
    /\ HandlerNew
    /\ EnrichNew
    /\ \E l \in ReminderLists : remoteReminders = [i \in DOMAIN l |-> Reminder(l[i])]
    /\ reminderParams = [contact_id |-> NoContactId, status |-> "", date_from |-> Omitted,
                         outcome |-> "none"]
    /\ reminderResult = <<>>
    /\ answered = [c \in ReminderContactIds \cup {NoContactId} |-> Unasked]

NextReminders ==
    \/ GetContactReminders /\ UNCHANGED besideReminder
    \/ GetContactRemindersFails /\ UNCHANGED besideReminder

SpecReminders == InitReminders /\ [][NextReminders]_vars

-----------------------------------------------------------------------------
(* The CallToolRequestSchema handler: dispatch, and the catch at its boundary *)

MaxToolCalls == 3

ToolNames ==
    {"search_contacts_full_text", "find_contact", "get_contact_details",
     "get_contact_history", "get_contact_notes", "get_contact_reminders",
     "enrich_contact", "add_contact_note", "create_contact_reminder"}

\* request.params: a tool name, arguments or none, and for find_contact which
\* identifier the arguments carry
ToolRequests ==
    {r \in [name : ToolNames \cup {"no_such_tool"}, hasArgs : BOOLEAN,
            identifier : {"none", "name", "email"}] :
        r.identifier # "none" => r.name = "find_contact" /\ r.hasArgs}

\* what the remote does during one call: the email search endpoint answers or
\* fails, finds a contact or none; every other request answers or fails
NetOutcomes == [emailSearchOk : BOOLEAN, emailFound : BOOLEAN, remoteOk : BOOLEAN]

MissingArgumentsMessage == <<"Missing arguments for tool call">>
UnknownToolMessage(name) == <<"Unknown tool: ", name>>
\* the Error the response interceptor of DexClient throws
RemoteErrorMessage == <<"Dex API error">>

\* how a tool ends: it throws or returns, what failed on the way, and the
\* caches as it leaves them
Throws(message, failures, cache, index) ==
    [threw |-> TRUE, message |-> message, failures |-> failures,
     cache |-> cache, index |-> index]
Returns(failures, cache, index) ==
    [threw |-> FALSE, message |-> <<>>, failures |-> failures,
     cache |-> cache, index |-> index]

\* searchIndex.refreshIndex(client), then search
searchContactsFullText(net, cache, index) ==
    IF index THEN Returns({}, cache, index)
    ELSE IF net.remoteOk THEN Returns({}, cache, TRUE)
    ELSE Throws(RemoteErrorMessage, {"refresh"}, cache, index)

\* ContactDiscoveryTools.findContact
findContact(request, net, cache, index) ==
    IF request.identifier = "none"
    THEN Throws(<<ValidationMessage>>, {"validation"}, cache, index)
    ELSE IF request.identifier = "email" /\ net.emailSearchOk /\ net.emailFound
    THEN Returns({}, cache, index)
    ELSE LET swallowed == IF request.identifier = "email" /\ ~net.emailSearchOk
                          THEN {"email_search"} ELSE {}
         IN  IF cache THEN Returns(swallowed, cache, index)
             ELSE IF net.remoteOk THEN Returns(swallowed, TRUE, index)
             ELSE Throws(RemoteErrorMessage, swallowed \cup {"remote"}, cache, index)

\* a tool that is one or two requests to the remote and nothing else
remoteTool(net, cache, index) ==
    IF net.remoteOk THEN Returns({}, cache, index)
    ELSE Throws(RemoteErrorMessage, {"remote"}, cache, index)

\* enrichmentTools.enrichContact, then discoveryTools.invalidateCache()
enrichContactTool(net, cache, index) ==
    IF net.remoteOk THEN Returns({}, FALSE, index)
    ELSE Throws(RemoteErrorMessage, {"remote"}, cache, index)

\* the body of the try block: the arguments check and the switch
dispatch(request, net, cache, index) ==
    IF ~request.hasArgs
    THEN Throws(MissingArgumentsMessage, {"missing_arguments"}, cache, index)
    ELSE CASE request.name = "search_contacts_full_text" ->
                  searchContactsFullText(net, cache, index)
           [] request.name = "find_contact" -> findContact(request, net, cache, index)
           [] request.name = "enrich_contact" -> enrichContactTool(net, cache, index)
           [] request.name \in ToolNames \ {"search_contacts_full_text", "find_contact",
                                            "enrich_contact"} ->
                  remoteTool(net, cache, index)
           [] OTHER -> Throws(UnknownToolMessage(request.name), {"unknown_tool"},
                              cache, index)

ErrorResponseUnflagged(errorMessage) ==
    [isError |-> FALSE, text |-> <<"Error: ">> \o errorMessage]

\* the catch block
ErrorResponse(errorMessage) ==
    [isError |-> TRUE, text |-> <<"Error: ">> \o errorMessage]

\* the return of a case: the result as JSON text
ResultResponse(name) == [isError |-> FALSE, text |-> <<"result of ", name>>]

\* one tool call, from the request to the response
HandleToolCall ==
    /\ served < MaxToolCalls
    /\ \E request \in ToolRequests, net \in NetOutcomes :
          LET end == dispatch(request, net, cacheFresh, indexFresh)
          IN  /\ toolRequest' = request
              /\ toolResponse' = IF end.threw THEN ErrorResponse(end.message)
                                  ELSE ResultResponse(request.name)
              /\ toolFailures' = end.failures
              /\ cacheFresh' = end.cache
              /\ indexFresh' = end.index
              /\ erred' = (erred \/ toolResponse.isError)
    /\ served' = served + 1

\* time passes: the contacts cache or the index outlives its TTL
CachesExpire ==
    /\ cacheFresh \/ indexFresh
    /\ \E c \in {cacheFresh, FALSE}, i \in {indexFresh, FALSE} :
          /\ <<c, i>> # <<cacheFresh, indexFresh>>
          /\ cacheFresh' = c /\ indexFresh' = i
    /\ UNCHANGED <<toolRequest, toolResponse, toolFailures, served, erred>>

InitHandler ==
    /\ IndexNew /\ MatcherNew /\ mpc = "off" /\ SearchNew /\ spc = "off" /\ NormNew /\ SnippetNew /\ LoaderNew /\ DiscoveryNew
    /\ ReminderNew /\ HandlerNew
    /\ EnrichNew

NextHandler ==
    \/ HandleToolCall /\ UNCHANGED besideHandler
    \/ CachesExpire /\ UNCHANGED besideHandler

SpecHandler == InitHandler /\ [][NextHandler]_vars

-----------------------------------------------------------------------------
(* ContactEnrichmentTools.enrichContact *)

MaxListLen == 2

OptLists(A) == {NoList} \cup {[isArray |-> TRUE, items |-> l] : l \in SeqsUpTo(A, MaxListLen)}
OptScalars(A) == {NotGiven} \cup {[given |-> TRUE, value |-> v] : v \in A}

\* the fields of a contact, and of an update: two lists, a simple field and a
\* custom field
Fields ==
    [tags : OptLists({"a", "b"}), social_profiles : OptLists({"x"}),
     company : OptScalars({"acme"}), custom : OptScalars({"v"})]

StoredContacts ==
    [tags : OptLists({"a", "b"}), social_profiles : OptLists({"x"}),
     company : OptScalars({"old"}), custom : {NotGiven}]

\* params: direct fields, and a nested updates object or none
EnrichParams ==
    [updates : {[given |-> FALSE, fields |-> NoFields],
                [given |-> TRUE, fields |-> [NoFields EXCEPT
                    !.tags = [isArray |-> TRUE, items |-> <<"b">>]]]},
     direct : Fields]

\* [...].filter((v, i, a) => a.indexOf(v) === i)
RECURSIVE RemoveDuplicates(_)
RemoveDuplicates(a) ==
    IF a = <<>> THEN <<>>
    ELSE LET front == RemoveDuplicates(SubSeq(a, 1, Len(a) - 1))
             v == a[Len(a)]
         IN  IF \E i \in DOMAIN front : front[i] = v THEN front ELSE Append(front, v)

\* the merge of one array field into mergedUpdates
MergeArray(current, new) ==
    IF new.isArray /\ current.isArray
    THEN [isArray |-> TRUE, items |-> RemoveDuplicates(current.items \o new.items)]
    ELSE IF new.isArray THEN new
    ELSE NoList

\* mergedUpdates, as enrichContact builds it from params and the current contact
mergedUpdates(p, currentContact) ==
    LET updates == IF p.updates.given THEN p.updates.fields ELSE p.direct
    IN  [tags |-> MergeArray(currentContact.tags, updates.tags),
         social_profiles |-> MergeArray(currentContact.social_profiles,
                                        updates.social_profiles),
         company |-> updates.company,
         custom |-> updates.custom]

\* PUT /contacts/:id: the fields sent replace the stored ones
updateContact(contact, sent) ==
    [tags |-> IF sent.tags.isArray THEN sent.tags ELSE contact.tags,
     social_profiles |-> IF sent.social_profiles.isArray THEN sent.social_profiles
                         ELSE contact.social_profiles,
     company |-> IF sent.company.given THEN sent.company ELSE contact.company,
     custom |-> IF sent.custom.given THEN sent.custom ELSE contact.custom]

\* enrichContact returns: it read the contact, merged and sent the update
EnrichContact ==
    /\ epc = "new"
    /\ \E p \in EnrichParams :
          /\ enrichParams' = p
          /\ enrichBefore' = storedContact
          /\ sentUpdates' = mergedUpdates(p, storedContact)
          /\ storedContact' = updateContact(storedContact, mergedUpdates(p, storedContact))
    /\ epc' = "enriched"

\* getContact or updateContact fails: the call rejects, the contact stays
EnrichContactFails ==
    /\ epc = "new"
    /\ \E p \in EnrichParams : enrichParams' = p
    /\ epc' = "thrown"
    /\ UNCHANGED <<storedContact, enrichBefore, sentUpdates>>

InitEnrich ==
    /\ IndexNew /\ MatcherNew /\ mpc = "off" /\ SearchNew /\ spc = "off" /\ NormNew /\ SnippetNew /\ LoaderNew /\ DiscoveryNew
    /\ ReminderNew /\ HandlerNew
    /\ storedContact \in StoredContacts
    /\ enrichBefore = NoFields /\ sentUpdates = NoFields
    /\ enrichParams = [updates |-> [given |-> FALSE, fields |-> NoFields],
                       direct |-> NoFields]
    /\ epc = "new"

NextEnrich ==
    \/ EnrichContact /\ UNCHANGED besideEnrich
    \/ EnrichContactFails /\ UNCHANGED besideEnrich

SpecEnrich == InitEnrich /\ [][NextEnrich]_vars

-----------------------------------------------------------------------------
(* FullTextSearchIndex.extractSnippet on its own: the excerpt around the     *)
(* first index pair of the first Fuse match. Fuse is a library; which span   *)
(* it reports is its choice, so the span is any pair of positions of the     *)
(* text that is at least minMatchCharLength long.                            *)

MaxCore == 3
MaxSpan == 3
minMatchCharLength == 2

\* n characters that occur nowhere else in a text
Pad(n) == [i \in 1..n |-> "x"]
\* no padding, or one character more than the context radius
PadLengths == {0, contextRadius + 1}
SnippetTexts ==
    {Pad(a) \o core \o Pad(b) :
        a \in PadLengths, b \in PadLengths,
        core \in SeqsUpTo({"a", ".", "$"}, MaxCore) \ {<<>>}}
\* the index pairs [start, end] of a text, end inclusive
SpansOf(text) ==
    {<<start, start + n - 1>> :
        start \in 0..(Len(text) - 1), n \in minMatchCharLength..MaxSpan}
    \cap ((0..(Len(text) - 1)) \X (0..(Len(text) - 1)))

\* search, where it calls extractSnippet with the document's text and the
\* matches of the Fuse result
ExtractSnippet ==
    /\ snpc = "new"
    /\ snippetOut' = extractSnippet(snipText, <<[indices |-> <<snipSpan>>]>>)
    /\ snpc' = "done"
    /\ UNCHANGED <<snipText, snipSpan>>

InitSnippet ==
    /\ IndexNew /\ MatcherNew /\ mpc = "off" /\ SearchNew /\ spc = "off" /\ NormNew /\ DiscoveryNew
    /\ ReminderNew /\ HandlerNew /\ EnrichNew /\ LoaderNew
    /\ snipText \in SnippetTexts
    /\ snipSpan \in SpansOf(snipText)
    /\ snippetOut = <<>>
    /\ snpc = "new"

NextSnippet ==
    \/ ExtractSnippet /\ UNCHANGED besideSnippet

SpecSnippet == InitSnippet /\ [][NextSnippet]_vars

-----------------------------------------------------------------------------
(* The contact loader: the page loop of FullTextSearchIndex.loadAllContacts, *)
(* which ContactDiscoveryTools.getContacts repeats line for line. The remote *)
(* list is fixed during one load; its contacts are numbered in remote order. *)

MaxRemote == 205

RemoteLists == {[i \in 1..n |-> i] : n \in 0..MaxRemote}
\* what the response interceptor of DexClient throws
PageErrors == {"Dex API error: 500", "Dex API error: No response received from server"}

\* GET /contacts with params limit and offset, on a list that does not change
Page(list, lim, offset) == SubSeq(list, offset + 1, Min(offset + lim, Len(list)))

\* batch.length < limit, as the one-page-too-early slip would have it
ShortPageInclusive(batch) == Len(batch) <= limit
\* batch.length < limit
ShortPage(batch) == Len(batch) < limit

\* one turn of the while loop: the page arrives, is appended, and the loop
\* either ends and returns allContacts or moves the offset on
PageArrives ==
    /\ ldpc = "loading"
    /\ LET batch == Page(ldRemote, limit, ldOffset)
       IN  /\ ldRequests' = Append(ldRequests, <<limit, ldOffset>>)
           /\ ldAll' = ldAll \o batch
           /\ IF ShortPage(batch)
              THEN ldpc' = "returned" /\ ldOffset' = ldOffset
              ELSE ldpc' = "loading" /\ ldOffset' = ldOffset + limit
    /\ UNCHANGED <<ldRemote, ldError>>

\* the awaited page request rejects; nothing in the loop catches it
PageFails ==
    /\ ldpc = "loading"
    /\ ldRequests' = Append(ldRequests, <<limit, ldOffset>>)
    /\ \E e \in PageErrors : ldError' = e
    /\ ldpc' = "failed"
    /\ UNCHANGED <<ldRemote, ldOffset, ldAll>>

InitLoader ==
    /\ IndexNew /\ MatcherNew /\ mpc = "off" /\ SearchNew /\ spc = "off" /\ NormNew /\ DiscoveryNew
    /\ ReminderNew /\ HandlerNew /\ EnrichNew /\ SnippetNew
    /\ ldRemote \in RemoteLists
    /\ ldOffset = 0 /\ ldAll = <<>> /\ ldRequests = <<>> /\ ldError = ""
    /\ ldpc = "loading"

NextLoader ==
    \/ PageArrives /\ UNCHANGED besideLoader
    \/ PageFails /\ UNCHANGED besideLoader

\* an awaited request is answered or rejected: the loop is never left waiting
SpecLoader == InitLoader /\ [][NextLoader]_vars /\ WF_vars(NextLoader)

-----------------------------------------------------------------------------
(* ContactDiscoveryTools with its contact cache, under the find_contact and  *)
(* enrich_contact tool calls of the server. Calls are async functions on one *)
(* event loop: a call runs until it awaits a request to Dex, and whatever it *)
(* does when the answer arrives, up to its next request, is one step. The    *)
(* contact list fits one page; the remote list is read when Dex serves the   *)
(* request, between the call's request and the arrival of the answer.        *)

MaxFinds == 2
MaxUpdates == 1

DiscoveryCalls == {1, 2}

\* 5 * 60 * 1000 milliseconds, in ticks of the clock
CACHE_TTL == TTLTicks

\* the remote contact list after v updates of contact 1 by enrich_contact
RemoteContacts(v) ==
    <<[Person(1, 2) EXCEPT !.description = [i \in 1..v |-> "u"]], Person(2, 3)>>
\* how many updates a contact list read from the remote holds
UpdatesIn(list) == IF list = <<>> THEN 0 ELSE Len(list[1].description)

\* find_contact arguments: an email, or another identifier
FindParams ==
    {[NoParams EXCEPT !.email = <<"z", "@", "x">>],
     [NoParams EXCEPT !.phone = <<"2", "3", "4", "5", "6", "7", "8", "9", "0", "1">>]}

\* what client.searchContactByEmail can come to
EmailSearchOutcomes == {"fails", "none", "found"}

IdleCall ==
    [pc |-> "idle", params |-> NoParams, emailSearch |-> "unasked", now |-> 0,
     batch |-> <<>>, need |-> 0, early |-> FALSE]
NoLoad == [n |-> 0, start |-> 0, valid |-> FALSE]
NoAnswer ==
    [seq |-> 0, call |-> 0, params |-> NoParams, emailSearch |-> "unasked",
     kind |-> "none", matches |-> <<>>, fetched |-> FALSE, list |-> <<>>, need |-> 0]

\* searchResults.map(contact => ({contact, confidence, match_reason})), unsure
viaSearchApiUnsure(hits) ==
    [i \in DOMAIN hits |->
        Match(hits[i], 99, "Exact email match via search API")]
\* searchResults.map(contact => ({contact, confidence: 100, match_reason}))
viaSearchApi(hits) ==
    [i \in DOMAIN hits |->
        Match(hits[i], 100, "Exact email match via search API")]

\* the cache test at the head of getContacts
CacheValid(now) == contactsCache.set /\ now - cacheTimestamp < CACHE_TTL

\* what findContact hands back to the tool handler
Answer(c, held, kind, found, fetched, list) ==
    [seq |-> dResult.seq + 1, call |-> c, params |-> held.params,
     emailSearch |-> held.emailSearch, kind |-> kind, matches |-> found,
     fetched |-> fetched, list |-> list, need |-> held.need]

\* getContacts from its first line, and findContact after it when the cache
\* is valid: the cached list is returned and the matcher, which holds the
\* list of the last setContacts, is asked; otherwise the fetch is sent
EnterGetContacts(c, held) ==
    IF CacheValid(dClock)
    THEN /\ dResult' = Answer(c, held, "local",
                              findMatches(matcherContacts, held.params, <<>>),
                              FALSE, matcherContacts)
         /\ dCall' = [dCall EXCEPT ![c] = IdleCall]
    ELSE /\ dCall' = [dCall EXCEPT ![c] = [held EXCEPT !.pc = "fetch", !.now = dClock]]
         /\ UNCHANGED dResult

\* a find_contact call arrives (in the first free slot): with an email the
\* search endpoint is asked first, without one getContacts is entered at once
FindArrives(c) ==
    /\ dCall[c].pc = "idle"
    /\ \A d \in DiscoveryCalls : d < c => dCall[d].pc # "idle"
    /\ dFinds < MaxFinds
    /\ dFinds' = dFinds + 1
    /\ \E p \in FindParams :
           LET held == [IdleCall EXCEPT !.params = p, !.need = dEnriched]
           IN  IF p.email # <<>>
               THEN /\ dCall' = [dCall EXCEPT ![c] = [held EXCEPT !.pc = "email"]]
                    /\ UNCHANGED dResult
               ELSE EnterGetContacts(c, held)
    /\ UNCHANGED <<dClock, dRemote, contactsCache, cacheTimestamp, matcherContacts,
                   dEnrich, dEnriched, dLoad, dUpdates>>

\* the email search is answered or rejects: contacts found are returned as
\* they are; an empty answer and a caught rejection go on to getContacts
EmailSearchAnswers(c) ==
    /\ dCall[c].pc = "email"
    /\ \E outcome \in EmailSearchOutcomes :
           LET held == [dCall[c] EXCEPT !.emailSearch = outcome]
               emailHits == IF outcome = "found"
                                THEN <<RemoteContacts(dRemote)[1]>> ELSE <<>>
           IN  IF outcome # "fails" /\ Len(emailHits) > 0
               THEN /\ dResult' = Answer(c, held, "email", viaSearchApi(emailHits),
                                         FALSE, emailHits)
                    /\ dCall' = [dCall EXCEPT ![c] = IdleCall]
               ELSE EnterGetContacts(c, held)
    /\ UNCHANGED <<dClock, dRemote, contactsCache, cacheTimestamp, matcherContacts,
                   dEnrich, dEnriched, dLoad, dFinds, dUpdates>>

\* Dex serves the contact page of a call from the list as it is now
FetchServed(c) ==
    /\ dCall[c].pc = "fetch"
    /\ dCall' = [dCall EXCEPT ![c].pc = "served", ![c].batch = RemoteContacts(dRemote)]
    /\ UNCHANGED <<dClock, dRemote, contactsCache, cacheTimestamp, matcherContacts,
                   dEnrich, dEnriched, dLoad, dResult, dFinds, dUpdates>>

\* the page arrives: getContacts installs the list with the time it read on
\* entry and hands it to the matcher; findContact matches and returns
FetchArrives(c) ==
    /\ dCall[c].pc = "served"
    /\ contactsCache' = [set |-> TRUE, list |-> dCall[c].batch]
    /\ cacheTimestamp' = dCall[c].now
    /\ matcherContacts' = dCall[c].batch
    /\ dLoad' = [n |-> dLoad.n + 1, start |-> dCall[c].now, valid |-> ~dCall[c].early]
    /\ dResult' = Answer(c, dCall[c], "local",
                         findMatches(dCall[c].batch, dCall[c].params, <<>>),
                         TRUE, dCall[c].batch)
    /\ dCall' = [dCall EXCEPT ![c] = IdleCall]
    /\ UNCHANGED <<dClock, dRemote, dEnrich, dEnriched, dFinds, dUpdates>>

\* the contact page request rejects: findContact rejects with it
FetchFails(c) ==
    /\ dCall[c].pc \in {"fetch", "served"}
    /\ dResult' = Answer(c, dCall[c], "error", RemoteErrorMessage, TRUE, <<>>)
    /\ dCall' = [dCall EXCEPT ![c] = IdleCall]
    /\ UNCHANGED <<dClock, dRemote, contactsCache, cacheTimestamp, matcherContacts,
                   dEnrich, dEnriched, dLoad, dFinds, dUpdates>>

\* an enrich_contact call arrives and sends its update
EnrichArrives ==
    /\ dEnrich = "idle"
    /\ dUpdates < MaxUpdates
    /\ dUpdates' = dUpdates + 1
    /\ dEnrich' = "sent"
    /\ UNCHANGED <<dClock, dRemote, contactsCache, cacheTimestamp, matcherContacts,
                   dCall, dEnriched, dLoad, dResult, dFinds>>

\* Dex applies the update
EnrichApplied ==
    /\ dEnrich = "sent"
    /\ dRemote' = dRemote + 1
    /\ dEnrich' = "applied"
    /\ UNCHANGED <<dClock, contactsCache, cacheTimestamp, matcherContacts,
                   dCall, dEnriched, dLoad, dResult, dFinds, dUpdates>>

\* enrichContact resolves and the handler calls discoveryTools.invalidateCache()
EnrichCompletes ==
    /\ dEnrich = "applied"
    /\ contactsCache' = [set |-> FALSE, list |-> <<>>]
    /\ cacheTimestamp' = 0
    /\ dEnriched' = dRemote
    /\ dLoad' = [dLoad EXCEPT !.valid = FALSE]
    /\ dCall' = [c \in DiscoveryCalls |->
                    IF dCall[c].pc \in {"fetch", "served"}
                    THEN [dCall[c] EXCEPT !.early = TRUE] ELSE dCall[c]]
    /\ dEnrich' = "idle"
    /\ UNCHANGED <<dClock, dRemote, matcherContacts, dResult, dFinds, dUpdates>>

\* enrichContact rejects: the handler's catch answers, the cache is left alone
EnrichFails ==
    /\ dEnrich \in {"sent", "applied"}
    /\ dEnrich' = "idle"
    /\ UNCHANGED <<dClock, dRemote, contactsCache, cacheTimestamp, matcherContacts,
                   dCall, dEnriched, dLoad, dResult, dFinds, dUpdates>>

DiscoveryTick ==
    /\ dClock < MaxTime
    /\ dClock' = dClock + 1
    /\ UNCHANGED <<dRemote, contactsCache, cacheTimestamp, matcherContacts,
                   dCall, dEnrich, dEnriched, dLoad, dResult, dFinds, dUpdates>>

InitDiscovery ==
    /\ IndexNew /\ MatcherNew /\ mpc = "off" /\ SearchNew /\ spc = "off" /\ NormNew
    /\ ReminderNew /\ HandlerNew /\ EnrichNew /\ SnippetNew /\ LoaderNew
    /\ dClock = 1 /\ dRemote = 0
    /\ contactsCache = [set |-> FALSE, list |-> <<>>]
    /\ cacheTimestamp = 0
    /\ matcherContacts = <<>>
    /\ dCall = [c \in DiscoveryCalls |-> IdleCall]
    /\ dEnrich = "idle" /\ dEnriched = 0
    /\ dLoad = NoLoad
    /\ dResult = NoAnswer
    /\ dFinds = 0 /\ dUpdates = 0

NextDiscovery ==
    \/ \E c \in DiscoveryCalls : FindArrives(c) /\ UNCHANGED besideDiscovery
    \/ \E c \in DiscoveryCalls : EmailSearchAnswers(c) /\ UNCHANGED besideDiscovery
    \/ \E c \in DiscoveryCalls : FetchServed(c) /\ UNCHANGED besideDiscovery
    \/ \E c \in DiscoveryCalls : FetchArrives(c) /\ UNCHANGED besideDiscovery
    \/ \E c \in DiscoveryCalls : FetchFails(c) /\ UNCHANGED besideDiscovery
    \/ EnrichArrives /\ UNCHANGED besideDiscovery
    \/ EnrichApplied /\ UNCHANGED besideDiscovery
    \/ EnrichCompletes /\ UNCHANGED besideDiscovery
    \/ EnrichFails /\ UNCHANGED besideDiscovery
    \/ DiscoveryTick /\ UNCHANGED besideDiscovery

SpecDiscovery == InitDiscovery /\ [][NextDiscovery]_vars

-----------------------------------------------------------------------------
(* Steps of the index, as the properties below name them *)

\* a tool call arrives in this step
Arrives == starts' # starts
\* the arriving call's refreshIndex goes on to fetch
BeginsFetch == \E c \in Calls : call[c].pc = "idle" /\ call'[c].pc = "contacts"
\* the arriving call's refreshIndex returns at the TTL check and changes nothing
ReturnsAtOnce == call' = call /\ UNCHANGED <<documents, fuse, contactsMap, lastRefresh>>
\* a handler answers with search results in this step
Searches == response'.seq # response.seq /\ response'.searched
\* a handler answers with an error in this step
Fails == response'.seq # response.seq /\ response'.isError
\* a refreshIndex call completes in this step
Completes == lastOk'.n # lastOk.n

(* C1: a search never sees a partially rebuilt index: whatever search      *)
(* returns is what it returns on the document list, Fuse index and contact *)
(* map that the last completed refresh left (the empty index before any).  *)
C1_SearchSeesCompletedRefreshOnly ==
    [][Searches =>
          response'.results = search(committed'.fuse.docs, committed'.contactsMap,
                                     response'.query[1], response'.query[2])]_vars

(* C2, as claimed: after a refresh has completed, a call that starts less  *)
(* than TTL after that completion fetches nothing and changes no index     *)
(* state; a call that starts TTL or more after it fetches again.           *)
C2_TTLCountsFromCompletion ==
    [][(Arrives /\ lastOk.n > 0) =>
          /\ (clock - lastOk.end < cacheTTL => ReturnsAtOnce)
          /\ (clock - lastOk.end >= cacheTTL => BeginsFetch)]_vars

(* C2, amended: the TTL counts from the time the refresh that completed    *)
(* last had read on entry: a call that starts less than TTL after that     *)
(* time fetches nothing and changes no index state; a call that starts TTL *)
(* or more after it begins the contacts/notes/reminders fetches again.     *)
C2_TTLCountsFromEntry ==
    [][(Arrives /\ lastOk.n > 0) =>
          /\ (clock - lastOk.start < cacheTTL => ReturnsAtOnce)
          /\ (clock - lastOk.start >= cacheTTL => BeginsFetch)]_vars

\* a call was answered from the cached index at a time later than the refresh's
\* completion, and a later call, TTL after the refresh's entry, is fetching
C2_Witness ==
    /\ response.cached /\ response.searched /\ response.at > lastOk.end
    /\ \E c \in Calls : call[c].pc = "contacts" /\ call[c].now - lastOk.start >= cacheTTL

C4_OnlyContactsOfLastRefresh ==
    [][(Searches /\ ~disturbed') =>
          \A i \in 1..Len(response'.results) :
              response'.results[i].contact.id \in DOMAIN lastOk'.map]_vars

(* C5: when two refreshes overlap, the one that completes last leaves the  *)
(* document list, the Fuse index and the contact map it built itself.      *)
C5_LastFinisherWins ==
    [][(Completes /\ lastOk'.overtaken) =>
          /\ documents' = lastOk'.documents
          /\ fuse' = [built |-> TRUE, docs |-> lastOk'.documents]
          /\ contactsMap' = lastOk'.map]_vars

-----------------------------------------------------------------------------
(* Properties of findMatches *)

ExactReasons == {"Exact email match", "Exact phone match", "Exact social profile match"}
FuzzyReasons == {"Name fuzzy match", "Name and company match"}

Found == mpc = "found"

HitByEmail(c) == params.email # <<>> /\ HasEmail(c, normalizeEmail(params.email))
HitByPhone(c) == params.phone # <<>> /\ HasPhone(c, normalizePhone(params.phone))
HitBySocial(c) ==
    params.social_url # <<>> /\ HasSocialUrl(c, normalizeUrl(params.social_url))
ExactHit(c) == HitByEmail(c) \/ HitByPhone(c) \/ HitBySocial(c)

SomeExactHit == \E i \in 1..Len(contacts) : ExactHit(contacts[i])

\* the contact is a name candidate that would pass the floor on its own
StrongNameCandidate(c) ==
    params.name # <<>> /\ fuseHits[NameKey(c)] # NoHit /\ fuseHits[NameKey(c)] <= 375

\* C6: when a supplied email, phone or social_url equals, after normalization,
\* an identifier of some contact, findMatches returns only exact-identifier
\* matches of confidence 100, each for a contact that has such an identifier,
\* and no fuzzy name match, whatever name and company are; a fuzzy name match
\* is returned only when no exact step had a hit.
C6_ExactHitsShortCircuit ==
    Found =>
        /\ SomeExactHit =>
              \A i \in 1..Len(matches) :
                  /\ matches[i].match_reason \in ExactReasons
                  /\ matches[i].confidence = 100
                  /\ ExactHit(matches[i].contact)
        /\ (\E i \in 1..Len(matches) : matches[i].match_reason \in FuzzyReasons)
              => ~SomeExactHit

\* an exact hit on one contact while another is a strong name candidate
C6_Witness ==
    /\ Found
    /\ \E i, j \in 1..Len(contacts) :
          /\ ExactHit(contacts[i])
          /\ ~ExactHit(contacts[j])
          /\ StrongNameCandidate(contacts[j])
    /\ Len(matches) > 0

FirstAxisReason(c) ==
    IF HitByEmail(c) THEN "Exact email match"
    ELSE IF HitByPhone(c) THEN "Exact phone match"
    ELSE "Exact social profile match"

\* C7: no contact id appears twice in the result of findMatches; a contact hit
\* on several exact axes appears once, with the match of the first axis that
\* hit it in the order email, phone, social_url.
C7_OncePerContactFirstAxis ==
    Found =>
        /\ \A i, j \in 1..Len(matches) :
              i # j => matches[i].contact.id # matches[j].contact.id
        /\ \A k \in 1..Len(contacts) :
              ExactHit(contacts[k]) =>
                  Cardinality({i \in 1..Len(matches) :
                                  /\ matches[i].contact.id = contacts[k].id
                                  /\ matches[i].match_reason
                                        = FirstAxisReason(contacts[k])}) = 1

\* one contact hit by phone and social_url but not by email, another by email
C7_Witness ==
    /\ Found
    /\ \E i, j \in 1..Len(contacts) :
          /\ i < j
          /\ ~HitByEmail(contacts[i]) /\ HitByPhone(contacts[i])
          /\ HitBySocial(contacts[i])
          /\ HitByEmail(contacts[j]) /\ HitByPhone(contacts[j])
    /\ \E i \in 1..Len(matches) : matches[i].match_reason = "Exact phone match"

\* C8: findMatches returns at most 5 matches, for every contact set and every
\* combination of search parameters.
C8_AtMostFive == Found => Len(matches) <= 5

BoostApplies(c) ==
    /\ params.company # <<>>
    /\ c.job_title # <<>>
    /\ CompanyMatches(params.company, c.job_title)

\* C9: every match findMatches returns from fuzzy name matching has confidence
\* at least 60; one whose name alone gives less than 60 is returned only with
\* the company boost, so the floor is applied to the boosted confidence.
C9_FloorAfterBoost ==
    Found =>
        \A i \in 1..Len(matches) :
            matches[i].match_reason \in FuzzyReasons =>
                /\ matches[i].confidence >= 60
                /\ 1000 - fuseHits[NameKey(matches[i].contact)] < 600
                      => /\ matches[i].match_reason = "Name and company match"
                         /\ BoostApplies(matches[i].contact)

\* a candidate under the floor by name alone is returned boosted, while
\* another candidate stays out
C9_Witness ==
    /\ Found
    /\ \E i \in 1..Len(matches) :
          /\ matches[i].match_reason = "Name and company match"
          /\ fuseHits[NameKey(matches[i].contact)] = 500
          /\ matches[i].confidence = 65
    /\ \E k \in 1..Len(contacts) :
          /\ fuseHits[NameKey(contacts[k])] # NoHit
          /\ \A i \in 1..Len(matches) : matches[i].contact.id # contacts[k].id

\* C10: for the same contacts and name query, a contact reported both with and
\* without the company has, with it, a confidence that is not lower; on the
\* name path it is the other plus 15, capped at 100, when company and job title
\* are both there and their word sets are more than 0.8 alike, and the same
\* otherwise.
C10_CompanyBoostMonotone ==
    Found =>
        \A i \in 1..Len(matches) : \A j \in 1..Len(matchesNoCo) :
            matches[i].contact.id = matchesNoCo[j].contact.id =>
                /\ matches[i].confidence >= matchesNoCo[j].confidence
                /\ matches[i].match_reason \in FuzzyReasons =>
                      matches[i].confidence =
                          IF BoostApplies(matches[i].contact)
                          THEN Min(100, matchesNoCo[j].confidence + 15)
                          ELSE matchesNoCo[j].confidence

\* one contact gains the 15, another is held at 100 by the cap, a third has a
\* job title too unlike the company to gain anything
C10_Witness ==
    /\ Found
    /\ params.company # <<>>
    /\ \E i \in 1..Len(matches) : \E j \in 1..Len(matchesNoCo) :
          /\ matches[i].contact.id = matchesNoCo[j].contact.id
          /\ matches[i].confidence = matchesNoCo[j].confidence + 15
    /\ \E i \in 1..Len(matches) :
          /\ matches[i].match_reason = "Name fuzzy match"
          /\ matches[i].contact.job_title # <<>>
    /\ \E i \in 1..Len(matches) :
          /\ matches[i].match_reason = "Name and company match"
          /\ matches[i].confidence = 100

-----------------------------------------------------------------------------
(* Input validation *)

\* C11 as claimed: findMatches called with no search parameter at all signals
\* an input-validation error to its caller instead of returning an empty list.
C11_FindMatchesRejectsNoParams ==
    (Found /\ params = NoParams) => thrown # NoError

\* C11 as the code has it: findMatches called with no search parameter returns
\* an empty list and signals nothing; the input-validation error is signalled
\* by findContact, which throws exactly when none of name, email, phone and
\* social_url is supplied, whatever the company, and otherwise goes on.
C11_FindContactRejectsNoIdentifier ==
    /\ (Found /\ params = NoParams) => (matches = <<>> /\ thrown = NoError)
    /\ mpc = "rejected" => (NoIdentifier(params) /\ thrown = ValidationMessage)
    /\ mpc = "accepted" =>
          /\ thrown = NoError
          /\ \/ params.name # <<>> \/ params.email # <<>>
             \/ params.phone # <<>> \/ params.social_url # <<>>

\* findContact has thrown on a call that supplied a company and nothing else
C11_Witness ==
    /\ mpc = "rejected"
    /\ params.company # <<>>
    /\ thrown = ValidationMessage

-----------------------------------------------------------------------------
(* Properties of search *)

Searched == spc = "searched"

DocConfidence(i) == (1000 - searchHits[documents[i].searchableText] + 5) \div 10

\* the documents of contact cid that Fuse took for hits and that pass the type
\* filter, the contact-map check and the threshold min
PassingDocs(cid, min) ==
    {i \in 1..Len(documents) :
        /\ documents[i].contactId = cid
        /\ searchHits[documents[i].searchableText] # NoHit
        /\ searchOptions.documentTypes.given
              => documents[i].documentType \in searchOptions.documentTypes.types
        /\ cid \in DOMAIN contactsMap
        /\ DocConfidence(i) >= min}

\* the threshold search applies
UsedMin ==
    IF searchOptions.minConfidence \in {Omitted, 0} THEN 50
    ELSE searchOptions.minConfidence

\* the threshold the caller asked for
AskedMin ==
    IF searchOptions.minConfidence = Omitted THEN 50 ELSE searchOptions.minConfidence

AskedMax == IF searchOptions.maxResults = Omitted THEN 10 ELSE searchOptions.maxResults

Best(ds) == CHOOSE m \in {DocConfidence(i) : i \in ds} :
                \A i \in ds : DocConfidence(i) <= m

Aggregate(ds) == Min(100, Best(ds) + Min(2 * Cardinality(ds), 10))

Returned(cid) == \E k \in 1..Len(searchResults) : searchResults[k].contact.id = cid

IndexedIds == {documents[i].contactId : i \in 1..Len(documents)}

\* C12: the confidence of every contact search returns is
\* min(100, M + min(2 * n, 10)), n the number of its match entries that passed
\* all filters and M the highest confidence among them.
C12_AggregatedConfidence ==
    Searched =>
        \A k \in 1..Len(searchResults) :
            LET ds == PassingDocs(searchResults[k].contact.id, UsedMin)
            IN  /\ ds # {}
                /\ Len(searchResults[k].matchContext) = Cardinality(ds)
                /\ searchResults[k].confidence = Aggregate(ds)

\* a contact returned with six match entries, where min(2 * n, 10) cuts
C12_Witness ==
    /\ Searched
    /\ \E k \in 1..Len(searchResults) :
          /\ Len(searchResults[k].matchContext) = 6
          /\ searchResults[k].confidence = 85

TwoAndOne(k, l) ==
    LET two == PassingDocs(searchResults[k].contact.id, UsedMin)
        one == PassingDocs(searchResults[l].contact.id, UsedMin)
    IN  /\ Cardinality(two) = 2
        /\ Cardinality(one) = 1
        /\ Best(two) = Best(one)

\* C13 as claimed: for one query, a contact with two matching documents gets a
\* strictly higher aggregated confidence than a contact with one matching
\* document of the same best match confidence.
C13_TwoDocumentsStrictlyHigher ==
    Searched =>
        \A k, l \in 1..Len(searchResults) :
            TwoAndOne(k, l) => searchResults[k].confidence > searchResults[l].confidence

\* C13 as the code has it: the contact with two matching documents is never
\* below the contact with one of the same best confidence, and strictly above
\* it unless that one is already at the cap of 100.
C13_TwoDocumentsHigherBelowCap ==
    Searched =>
        \A k, l \in 1..Len(searchResults) :
            TwoAndOne(k, l) =>
                /\ searchResults[k].confidence >= searchResults[l].confidence
                /\ searchResults[l].confidence < 100
                      => searchResults[k].confidence > searchResults[l].confidence

\* two documents at 75 give 79, one document at 75 gives 77
C13_Witness ==
    /\ Searched
    /\ \E k, l \in 1..Len(searchResults) :
          /\ TwoAndOne(k, l)
          /\ searchResults[k].confidence = 79
          /\ searchResults[l].confidence = 77

\* C14: for every minConfidence from 0 to 100, a matched document that passes
\* the type filter and the contact-map check contributes a match entry exactly
\* when its confidence is at least minConfidence, 50 standing in only when
\* minConfidence is omitted: a returned contact has one entry per such
\* document, and a contact with such a document is returned unless the result
\* is full.
C14_ThresholdAsAsked ==
    Searched =>
        \A cid \in IndexedIds :
            /\ \A k \in 1..Len(searchResults) :
                  searchResults[k].contact.id = cid =>
                      Len(searchResults[k].matchContext)
                          = Cardinality(PassingDocs(cid, AskedMin))
            /\ (PassingDocs(cid, AskedMin) # {} /\ ~Returned(cid))
                  => Len(searchResults) = AskedMax

\* C15: for every positive maxResults search returns at most maxResults
\* results, at most 10 when it is omitted, in non-increasing order of
\* aggregated confidence, and no contact the truncation leaves out has a higher
\* aggregated confidence than a returned one.
C15_TopResultsInOrder ==
    Searched =>
        /\ Len(searchResults) <= AskedMax
        /\ \A k \in 1..(Len(searchResults) - 1) :
              searchResults[k].confidence >= searchResults[k + 1].confidence
        /\ \A cid \in IndexedIds :
              (PassingDocs(cid, UsedMin) # {} /\ ~Returned(cid)) =>
                  /\ Len(searchResults) = AskedMax
                  /\ \A k \in 1..Len(searchResults) :
                        searchResults[k].confidence
                            >= Aggregate(PassingDocs(cid, UsedMin))

\* maxResults omitted, more than 10 contacts match, and the 10 returned are
\* not all alike
C15_Witness ==
    /\ Searched
    /\ searchOptions.maxResults = Omitted
    /\ Len(searchResults) = 10
    /\ \E cid \in IndexedIds : PassingDocs(cid, UsedMin) # {} /\ ~Returned(cid)
    /\ searchResults[1].confidence > searchResults[10].confidence

-----------------------------------------------------------------------------
(* Confidence 100 *)

\* C16 as claimed: a ContactMatch has confidence 100 only when it is an exact
\* identifier match; a match produced by fuzzy name matching always has
\* confidence below 100.
C16_HundredOnlyForExact ==
    Found =>
        \A i \in 1..Len(matches) :
            /\ matches[i].confidence = 100 => matches[i].match_reason \in ExactReasons
            /\ matches[i].match_reason \in FuzzyReasons => matches[i].confidence < 100

\* the confidence of a name candidate before rounding, in tenths
NameTenths(c) ==
    IF BoostApplies(c) THEN Min(1000, 1000 - fuseHits[NameKey(c)] + 150)
    ELSE 1000 - fuseHits[NameKey(c)]

\* C16 as the code has it: an exact identifier match always has confidence
\* 100; a fuzzy name match has a confidence from 60 to 100, and has 100 exactly
\* when (1 - score) * 100, with the company boost of 15 where it applies and
\* the cap of 100, is 99.5 or more.
C16_FuzzyReachesHundred ==
    Found =>
        \A i \in 1..Len(matches) :
            /\ matches[i].match_reason \in ExactReasons => matches[i].confidence = 100
            /\ matches[i].match_reason \in FuzzyReasons =>
                  /\ matches[i].confidence >= 60
                  /\ matches[i].confidence <= 100
                  /\ matches[i].confidence = 100
                        <=> NameTenths(matches[i].contact) >= 995

\* a perfect name match at 100, and a name match at 87.5 lifted to 100
C16_Witness ==
    /\ Found
    /\ \E i \in 1..Len(matches) :
          /\ matches[i].match_reason = "Name fuzzy match"
          /\ matches[i].confidence = 100
    /\ \E i \in 1..Len(matches) :
          /\ matches[i].match_reason = "Name and company match"
          /\ fuseHits[NameKey(matches[i].contact)] = 125
          /\ matches[i].confidence = 100

-----------------------------------------------------------------------------
(* Normalization *)

\* C17: each of the three normalizers is idempotent: normalizeEmail,
\* normalizePhone and the social-URL normalizer applied to their own output
\* return that output unchanged.
C17_NormalizersIdempotent == normKind # "none" => normTwice = normOnce

-----------------------------------------------------------------------------
(* Reminders of a contact *)

\* the reminders of the remote that are associated with two or more contacts
SharedReminders ==
    {i \in DOMAIN remoteReminders : Cardinality(Range(remoteReminders[i].contact_ids)) >= 2}

\* C18: a reminder associated with two contacts is in the result of
\* getContactReminders (status 'all' or none, no date filter) for each of its
\* contacts, whichever of them have been asked for.
C18_SharedReminderForEachContact ==
    \A i \in SharedReminders :
        \A c \in Range(remoteReminders[i].contact_ids) :
            answered[c].asked => remoteReminders[i] \in Range(answered[c].result)

C18_Witness ==
    \E i \in SharedReminders :
        \E c1, c2 \in Range(remoteReminders[i].contact_ids) :
            /\ c1 # c2
            /\ answered[c1].asked /\ remoteReminders[i] \in Range(answered[c1].result)
            /\ answered[c2].asked /\ remoteReminders[i] \in Range(answered[c2].result)

-----------------------------------------------------------------------------
(* The handler's boundary *)

Handled == served > 0

\* what the handler reports of an error: the flag and the message
Reports(message) == toolResponse = [isError |-> TRUE, text |-> <<"Error: ">> \o message]

\* C19 as stated: every handled call has a response, and whenever arguments
\* were missing, the tool was unknown, validation failed, a remote call failed
\* or the index refresh failed, the response is flagged isError.
C19_EveryFailureFlagged ==
    Handled => /\ toolResponse # NoToolResponse
               /\ toolFailures # {} => toolResponse.isError

\* C19, amended: every handled call has a response; it is flagged isError and
\* carries the message exactly when something failed other than the email
\* search of find_contact, whose failure falls back to the contact list.
C19_FailuresFlaggedButEmailSearch ==
    Handled =>
        /\ toolResponse # NoToolResponse
        /\ toolResponse.isError <=> toolFailures \ {"email_search"} # {}
        /\ "missing_arguments" \in toolFailures => Reports(MissingArgumentsMessage)
        /\ "unknown_tool" \in toolFailures => Reports(UnknownToolMessage(toolRequest.name))
        /\ "validation" \in toolFailures => Reports(<<ValidationMessage>>)
        /\ toolFailures \cap {"remote", "refresh"} # {} => Reports(RemoteErrorMessage)

\* a call is served without error after an earlier call was answered with one,
\* and its email search failed on the way
C19_Witness ==
    /\ Handled /\ erred /\ ~toolResponse.isError
    /\ toolFailures = {"email_search"}

-----------------------------------------------------------------------------
(* Enrichment *)

\* the updates the call supplied: the nested object if there is one
Supplied == IF enrichParams.updates.given THEN enrichParams.updates.fields
            ELSE enrichParams.direct

ItemsOf(list) == IF list.isArray THEN list.items ELSE <<>>

NoDuplicates(l) == \A i, j \in DOMAIN l : l[i] = l[j] => i = j

\* sent is the duplicate-free union of current and new, current entries first
UnionCurrentFirst(sent, current, new) ==
    /\ NoDuplicates(sent)
    /\ Range(sent) = Range(current) \cup Range(new)
    /\ \A i, j \in DOMAIN sent :
          sent[i] \in Range(current) /\ sent[j] \notin Range(current) => i < j

\* C20: for tags and for social_profiles, the list enrichContact sends is the
\* duplicate-free union of the contact's current list and the supplied list,
\* current entries first; a supplied scalar field overwrites the stored value.
C20_ListsMergedScalarsOverwritten ==
    epc = "enriched" =>
        /\ \A f \in {"tags", "social_profiles"} :
              Supplied[f].isArray =>
                  /\ sentUpdates[f].isArray
                  /\ UnionCurrentFirst(sentUpdates[f].items, ItemsOf(enrichBefore[f]),
                                       Supplied[f].items)
        /\ Supplied.company.given => storedContact.company = Supplied.company

-----------------------------------------------------------------------------
(* Phone matches *)

\* the digits of a phone number, as normalizePhone leaves them
HasDigits(phone) == normalizePhone(phone) # <<>>

\* C30: findMatches reports 'Exact phone match' for a contact only when the
\* contact has a phone whose normalized digit string is non-empty and equal to
\* the normalized query phone; a query phone without a digit matches no contact.
C30_PhoneMatchNeedsDigits ==
    Found =>
        \A i \in 1..Len(matches) :
            matches[i].match_reason = "Exact phone match" =>
                /\ HasDigits(params.phone)
                /\ \E k \in 1..Len(matches[i].contact.phones) :
                      LET number == matches[i].contact.phones[k].phone_number
                      IN  HasDigits(number)
                          /\ normalizePhone(number) = normalizePhone(params.phone)

-----------------------------------------------------------------------------
(* Failed refreshes *)

\* the refresh of call c fails in this step
FailsFor(c) == Fails /\ InFlight(c) /\ call'[c] = Idle

\* C27: a refreshIndex call that fails at any of its fetches leaves the
\* document list, the fuzzy index, the contact map and lastRefresh as they were
\* before the call. Stated for a call that no other refresh has overlapped.
C27_FailedRefreshChangesNothing ==
    [][\A c \in Calls :
          (FailsFor(c) /\ ~disturbed) =>
              /\ documents' = call[c].entry.documents
              /\ fuse' = call[c].entry.fuse
              /\ contactsMap' = call[c].entry.contactsMap
              /\ lastRefresh' = call[c].entry.lastRefresh]_vars

-----------------------------------------------------------------------------
(* Staleness *)

\* the time at which the call answered in this step made its TTL check
CheckTime == IF response'.cached THEN clock ELSE lastOk'.start

\* C24: every search served by the tool runs on data fetched by a refresh that
\* started less than TTL before the call's own refreshIndex check, or by the
\* refresh the call itself performed: the documents searched and every contact
\* returned are of such a refresh.
C24_SearchedDataWithinTTL ==
    [][Searches =>
          /\ CheckTime - lastOk'.start < cacheTTL
          /\ \A i \in 1..Len(response'.results) :
                CheckTime - mapStart'[response'.results[i].contact.id] < cacheTTL]_vars

\* C28 as stated: every successful completion of refreshIndex leaves
\* lastRefresh at least as large as it was before.
C28_LastRefreshNeverDecreases == [][Completes => lastRefresh' >= lastRefresh]_vars

\* C28, amended: a successful completion sets lastRefresh to the time the
\* completing call read on entry; that is at least the former value unless a
\* refresh that began later has completed while this one was in flight.
C28_LastRefreshIsEntryTime ==
    [][Completes =>
          /\ lastRefresh' = lastOk'.start
          /\ ~lastOk'.overtaken => lastRefresh' >= lastRefresh]_vars

\* a second refresh has completed after an earlier one, not overtaken, and
\* moved lastRefresh forward
C28_Witness ==
    lastOk.n >= 2 /\ ~lastOk.overtaken /\ lastRefresh = lastOk.start /\ lastRefresh > 1

-----------------------------------------------------------------------------
(* Search and the first refresh *)

\* C29: the server runs search only after a refreshIndex has completed: a call
\* whose refresh fails is answered with an error and without a search, no call
\* passes the TTL check before the fuzzy index is built, and so no error
\* comes from a search on an index that was never built.
C29_SearchOnlyOnBuiltIndex ==
    /\ lastRefresh # 0 => fuse.built /\ lastOk.n > 0
    /\ response.seq > 0 =>
          /\ response.searched => lastOk.n > 0 /\ fuse.built
          /\ response.isError => ~response.searched /\ ~response.cached

\* the first refresh has failed and was answered with an error, no index has
\* been built, and the next call is fetching instead of searching
C29_Witness ==
    /\ response.isError /\ ~response.searched /\ ~fuse.built /\ lastOk.n = 0
    /\ \E c \in Calls : call[c].pc = "contacts" /\ call[c].retry

-----------------------------------------------------------------------------
(* The snippet *)

\* the ellipsis that stands for text cut off before from or after to
Lead(from) == IF from > 0 THEN Ellipsis ELSE <<>>
Trail(text, to) == IF to < Len(text) THEN Ellipsis ELSE <<>>

\* C26: when a match span is available, the snippet is an excerpt of the text
\* with the emphasis markers around exactly the characters of the span, at
\* the place of the span in the excerpt, with at most 60 characters of the
\* text on each side and an ellipsis where text was cut off; no other
\* occurrence of the substring and no part of an ellipsis is emphasized.
C26_EmphasisOnTheSpan ==
    snpc = "done" =>
        LET start == snipSpan[1]
            end == snipSpan[2]
            matchText == Substring(snipText, start, end + 1)
        IN  \E from \in Max(0, start - contextRadius)..start :
                LET upToSpan == Lead(from) \o Substring(snipText, from, start)
                                    \o Bold \o matchText \o Bold
                IN  /\ Len(upToSpan) <= Len(snippetOut)
                    /\ SubSeq(snippetOut, 1, Len(upToSpan)) = upToSpan
                    /\ \E to \in (end + 1)..Min(Len(snipText), end + 1 + contextRadius) :
                           SubSeq(snippetOut, Len(upToSpan) + 1, Len(snippetOut))
                               = Substring(snipText, end + 1, to) \o Trail(snipText, to)

-----------------------------------------------------------------------------
(* The contact loader *)

\* the requests made so far ask for pages of limit at offsets 0, limit, ...
RequestsInOrder ==
    \A k \in DOMAIN ldRequests : ldRequests[k] = <<limit, (k - 1) * limit>>
\* the pages answered so far, in the order of their requests
PagesAnswered ==
    [k \in 1..(IF ldpc = "failed" THEN Len(ldRequests) - 1 ELSE Len(ldRequests)) |->
        Page(ldRemote, limit, ldRequests[k][2])]

\* C25: the loader requests pages of 100 at offsets 0, 100, 200, ... in that
\* order and stops after the first page with fewer than 100 contacts; on a
\* finite list that does not change it ends, and then it has returned every
\* contact exactly once in remote order, or a page request has failed and the
\* load is aborted with that error.
C25_LoaderPagesThrough ==
    /\ [](/\ limit = 100 /\ RequestsInOrder
          /\ \A k \in DOMAIN PagesAnswered :
                 Len(PagesAnswered[k]) < 100 <=>
                     (ldpc = "returned" /\ k = Len(PagesAnswered))
          /\ ldpc = "returned" => ldAll = ldRemote
          /\ ldpc = "failed" => ldError \in PageErrors
          /\ ldpc = "loading" => ldError = "")
    /\ <>(ldpc \in {"returned", "failed"})

\* a list of exactly two full pages has been returned after a third, empty page
C25_Witness ==
    /\ ldpc = "returned" /\ Len(ldRemote) = 200 /\ Len(ldRequests) = 3
    /\ ldAll = ldRemote

-----------------------------------------------------------------------------
(* find_contact and the contact cache *)

\* findContact answers in this step
Answers == dResult'.seq # dResult.seq
\* the answer is to a call with an email whose email search failed or found nobody
FellBack == dResult'.params.email # <<>> /\ dResult'.emailSearch \in {"fails", "none"}
\* the answer is what the local matcher finds for the call's parameters on list
LocalOn(list) ==
    /\ dResult'.kind = "local"
    /\ dResult'.matches = findMatches(list, dResult'.params, <<>>)
\* the answer is the contacts of the email search, each with confidence 100,
\* and no contact list was fetched for it
FromEmailSearch ==
    /\ dResult'.kind = "email" /\ ~dResult'.fetched
    /\ Len(dResult'.matches) = Len(dResult'.list)
    /\ \A i \in DOMAIN dResult'.matches :
           /\ dResult'.matches[i].contact = dResult'.list[i]
           /\ dResult'.matches[i].confidence = 100
\* getContacts returns the cached list in this step and findContact answers
ServedFromCache ==
    /\ Answers /\ ~dResult'.fetched
    /\ LocalOn(contactsCache.list)
    /\ UNCHANGED <<contactsCache, cacheTimestamp, matcherContacts>>
\* getContacts sends the contact-list fetch in this step
BeginsListFetch ==
    \E c \in DiscoveryCalls : dCall[c].pc \in {"idle", "email"} /\ dCall'[c].pc = "fetch"
\* a call reaches getContacts in this step
EntersGetContacts ==
    BeginsListFetch \/ (Answers /\ dResult'.kind = "local" /\ ~dResult'.fetched)

\* C21, as claimed: when the email search fails or finds nobody, findContact
\* does not fail: it loads the full contact list and returns the local
\* matcher's result for the same parameters; when the email search returns
\* contacts, exactly those are returned with confidence 100 and no contact
\* list is fetched.
C21_FallbackLoadsAndNeverFails ==
    [][Answers =>
          /\ FellBack => dResult'.fetched /\ LocalOn(dResult'.list)
          /\ dResult'.emailSearch = "found" => FromEmailSearch]_vars

\* C21, amended: when the email search fails or finds nobody, findContact
\* goes on to the contact list: with a valid cache it fetches nothing and
\* matches on the cached list, otherwise it loads the full list, fails if
\* and only if that load fails, and matches on the loaded list; the result is
\* the local matcher's for the same parameters. When the email search
\* returns contacts, exactly those are returned with confidence 100 and no
\* contact list is fetched.
C21_FallbackToCacheOrLoad ==
    [][/\ \A c \in DiscoveryCalls :
             (dCall[c].pc = "email" /\ dCall'[c].pc = "fetch") => ~CacheValid(dClock)
       /\ Answers =>
             /\ (FellBack /\ ~dResult'.fetched) =>
                    CacheValid(dClock) /\ ServedFromCache
             /\ (FellBack /\ dResult'.fetched) =>
                    \/ dResult'.kind = "error" /\ UNCHANGED contactsCache
                    \/ /\ LocalOn(dCall[dResult'.call].batch)
                       /\ contactsCache' = [set |-> TRUE, list |-> dCall[dResult'.call].batch]
                       /\ dCall[dResult'.call].batch \in
                              {RemoteContacts(v) : v \in 0..dRemote}
             /\ dResult'.emailSearch = "found" => FromEmailSearch]_vars

\* a rejected email search has been answered from the cache, without a fetch
C21_Witness ==
    /\ dResult.seq > 1 /\ dResult.params.email # <<>>
    /\ dResult.emailSearch = "fails" /\ dResult.kind = "local" /\ ~dResult.fetched
    /\ Len(dResult.matches) > 0

\* a load has completed, began after every invalidateCache so far, and read
\* the time on entry less than the TTL ago
CacheCurrent == dLoad.n > 0 /\ dLoad.valid /\ dClock - dLoad.start < CACHE_TTL

\* C22: within the TTL of a successful contact-list load a findContact call
\* that reaches local matching fetches nothing and matches on the cached
\* list; once the TTL has elapsed, or after invalidateCache has been called,
\* the next such call fetches the whole list again. (The time of a load is the
\* time it read on entry.)
C22_CacheForTTLOrUntilInvalidated ==
    [][EntersGetContacts =>
          IF CacheCurrent THEN ServedFromCache ELSE BeginsListFetch]_vars

\* C23: once an enrich_contact call has completed, a find_contact call that
\* starts later and matches locally works on a contact list read from the
\* remote after the update, also when another find_contact was suspended in
\* its fetch while the enrichment ran.
C23_LocalMatchingSeesTheUpdate ==
    dResult.kind = "local" => UpdatesIn(dResult.list) >= dResult.need

====
